---------------------------- MODULE Spec2Model ----------------------------
(***************************************************************************)
(* A model of the mcp2 gateway core: the profile engine (glob matching and *)
(* allow/deny evaluation), the upstream registry and the aggregating hub   *)
(* (discovery and invocation for tools, resources and prompts).            *)
(*                                                                         *)
(* Strings are sequences of one-character strings, so that splitting,      *)
(* prefixing and glob matching are computed character by character.        *)
(***************************************************************************)
EXTENDS Naturals, Integers, Sequences, FiniteSets, TLC

VARIABLES
    pattern,        \* matchPattern: the pattern argument
    name,           \* matchPattern: the name argument
    matched,        \* matchPattern: [called, result], result being its return value
    engine,         \* profile.Engine under test: [config, profile]
    query,          \* the (serverID, kind, name) asked of the engine
    decision,       \* the engine: [called, result], result being its return value
    config,         \* Hub.config: the RootConfig ([Profiles])
    profileName,    \* the profile the hub's engine was built with
    prefixEnabled,  \* Hub.prefixEnabled
    upstreams,      \* Manager.upstreams: the ids with a live connection
    caps,           \* what each backend exposes, per kind (the environment)
    resp,           \* the last request served by the hub and its outcome
    mu,             \* Manager.mu: [writer, readers], the holders of the sync.RWMutex
    threads,        \* the goroutines calling into the Manager, each with its position
    nextSession,    \* the identity the next successful handshake gives its session
    proxy           \* the PerServerProxy serving one backend: [serverID, upstream]

matchVars  == <<pattern, name, matched>>
policyVars == <<engine, query, decision>>
hubVars    == <<config, profileName, prefixEnabled, upstreams, caps, resp>>
mgrVars    == <<mu, threads, nextSession>>
proxyVars  == <<proxy>>
vars       == <<pattern, name, matched, engine, query, decision,
                config, profileName, prefixEnabled, upstreams, caps, resp,
                mu, threads, nextSession, proxy>>

-----------------------------------------------------------------------------
(* Bounds *)

MaxNameLen == 3
MaxPatLen == 4

-----------------------------------------------------------------------------
(* Strings *)

\* Mutant of Sep: the separator of a platform whose paths are not written with "/"
Sep_Backslash == "\\"

Sep == "/"

RECURSIVE StrOfLen(_, _)
StrOfLen(A, n) ==
    IF n = 0 THEN {<< >>}
    ELSE {<<c>> \o s : c \in A, s \in StrOfLen(A, n - 1)}

StrUpTo(A, n) == UNION {StrOfLen(A, k) : k \in 0..n}

\* strings.HasPrefix
HasPrefix(s, p) == Len(p) <= Len(s) /\ SubSeq(s, 1, Len(p)) = p

\* strings.HasSuffix
HasSuffix(s, x) == Len(x) <= Len(s) /\ SubSeq(s, Len(s) - Len(x) + 1, Len(s)) = x

\* strings.Index, 1-based; 0 when sub does not occur
Index(s, sub) ==
    LET hits == {i \in 1..(Len(s) - Len(sub) + 1) : SubSeq(s, i, i + Len(sub) - 1) = sub}
    IN  IF hits = {} THEN 0 ELSE CHOOSE i \in hits : \A j \in hits : i <= j

\* strings.Contains
Contains(s, sub) == Index(s, sub) # 0

\* strings.TrimSuffix
TrimSuffix(s, x) == IF HasSuffix(s, x) THEN SubSeq(s, 1, Len(s) - Len(x)) ELSE s

\* strings.TrimPrefix
TrimPrefix(s, p) == IF HasPrefix(s, p) THEN SubSeq(s, Len(p) + 1, Len(s)) ELSE s

\* strings.SplitN(s, sep, 2): split at the first occurrence of sep only
SplitN2(s, sep) ==
    LET i == Index(s, sep)
    IN  IF i = 0 THEN <<s>>
        ELSE <<SubSeq(s, 1, i - 1), SubSeq(s, i + Len(sep), Len(s))>>

\* The byte value of a character, for the range test of a character class.
Code(c) ==
    CASE c = "*"  -> 42
      [] c = "-"  -> 45
      [] c = "/"  -> 47
      [] c = ":"  -> 58
      [] c = "?"  -> 63
      [] c = "["  -> 91
      [] c = "\\" -> 92
      [] c = "]"  -> 93
      [] c = "^"  -> 94
      [] c = "a"  -> 97
      [] c = "b"  -> 98
      [] c = "x"  -> 120
      [] c = "y"  -> 121
      [] OTHER    -> 0

-----------------------------------------------------------------------------
(* path/filepath.Match, as called by matchPattern *)

\* scanChunk's scan loop: the length of the chunk that starts p
RECURSIVE ScanEnd(_, _, _)
ScanEnd(p, i, inrange) ==
    IF i > Len(p) THEN Len(p)
    ELSE IF p[i] = "\\" THEN ScanEnd(p, IF i + 1 <= Len(p) THEN i + 2 ELSE i + 1, inrange)
    ELSE IF p[i] = "[" THEN ScanEnd(p, i + 1, TRUE)
    ELSE IF p[i] = "]" THEN ScanEnd(p, i + 1, FALSE)
    ELSE IF p[i] = "*" /\ ~inrange THEN i - 1
    ELSE ScanEnd(p, i + 1, inrange)

RECURSIVE StripStars(_)
StripStars(p) == IF p # << >> /\ p[1] = "*" THEN StripStars(Tail(p)) ELSE p

\* scanChunk's result, q being the pattern without its leading stars and n the
\* length of its first chunk
scanned(p, q, n) ==
    [star  |-> p # << >> /\ p[1] = "*",
     chunk |-> SubSeq(q, 1, n),
     rest  |-> SubSeq(q, n + 1, Len(q))]

scanStripped(p, q) == scanned(p, q, ScanEnd(q, 1, FALSE))

scanChunk(p) == scanStripped(p, StripStars(p))

BadEsc == [err |-> TRUE, r |-> 0, nchunk |-> << >>]

\* getEsc past its optional backslash
getEscAt(c1) ==
    IF c1 = << >> THEN BadEsc
    ELSE [err |-> Tail(c1) = << >>, r |-> Code(c1[1]), nchunk |-> Tail(c1)]

getEsc(chunk) ==
    IF chunk = << >> \/ chunk[1] = "-" \/ chunk[1] = "]" THEN BadEsc
    ELSE getEscAt(IF chunk[1] = "\\" THEN Tail(chunk) ELSE chunk)

BadRange == [err |-> TRUE, chunk |-> << >>, match |-> FALSE]

\* The "parse all ranges" loop of a character class; r is the rune read from s.
RECURSIVE ParseRanges(_, _, _, _)
\* a range lo-hi, hi being what getEsc read after the '-'
rangeHi(lo, hi, r, match, nrange) ==
    IF hi.err THEN BadRange
    ELSE ParseRanges(hi.nchunk, r, match \/ (lo.r <= r /\ r <= hi.r), nrange + 1)

\* lo being what getEsc read at the start of a range
rangeLo(lo, r, match, nrange) ==
    IF lo.err THEN BadRange
    ELSE IF lo.nchunk[1] = "-" THEN rangeHi(lo, getEsc(Tail(lo.nchunk)), r, match, nrange)
    ELSE ParseRanges(lo.nchunk, r, match \/ lo.r = r, nrange + 1)

ParseRanges(chunk, r, match, nrange) ==
    IF chunk # << >> /\ chunk[1] = "]" /\ nrange > 0
    THEN [err |-> FALSE, chunk |-> Tail(chunk), match |-> match]
    ELSE rangeLo(getEsc(chunk), r, match, nrange)

BadChunk == [rest |-> << >>, ok |-> FALSE, err |-> TRUE]

RECURSIVE matchChunkLoop(_, _, _)
\* case '[': pr is the parsed class, c the chunk after '['
matchClass(pr, negated, s, failed) ==
    IF pr.err THEN BadChunk
    ELSE matchChunkLoop(pr.chunk, IF failed THEN s ELSE Tail(s), failed \/ pr.match = negated)

matchClassAt(c, s, failed) ==
    matchClass(ParseRanges(IF c # << >> /\ c[1] = "^" THEN Tail(c) ELSE c,
                           IF failed THEN 0 ELSE Code(s[1]), FALSE, 0),
               c # << >> /\ c[1] = "^", s, failed)

\* case '\\' and default: lit is the chunk past an escaping backslash
matchLiteral(lit, s, failed) ==
    IF lit = << >> THEN BadChunk
    ELSE matchChunkLoop(Tail(lit), IF failed THEN s ELSE Tail(s), failed \/ lit[1] # s[1])

\* One turn of matchChunk's loop; failed is set once s is exhausted or has mismatched
matchChunkStep(chunk, s, failed) ==
    IF chunk[1] = "[" THEN matchClassAt(Tail(chunk), s, failed)
    ELSE IF chunk[1] = "?"
    THEN matchChunkLoop(Tail(chunk), IF failed THEN s ELSE Tail(s), failed \/ s[1] = Sep)
    ELSE matchLiteral(IF chunk[1] = "\\" THEN Tail(chunk) ELSE chunk, s, failed)

matchChunkLoop(chunk, s, failed) ==
    IF chunk = << >>
    THEN IF failed THEN [rest |-> << >>, ok |-> FALSE, err |-> FALSE]
                   ELSE [rest |-> s, ok |-> TRUE, err |-> FALSE]
    ELSE matchChunkStep(chunk, s, failed \/ s = << >>)

matchChunk(chunk, s) == matchChunkLoop(chunk, s, FALSE)

\* After a mismatch: the check that the rest of the pattern is well formed.
RECURSIVE RestIsBad(_)
restIsBadAt(sc) == matchChunk(sc.chunk, << >>).err \/ RestIsBad(sc.rest)

RestIsBad(p) == IF p = << >> THEN FALSE ELSE restIsBadAt(scanChunk(p))

BadPattern == [matched |-> FALSE, err |-> TRUE]

RECURSIVE Match(_, _)
RECURSIVE StarLoop(_, _, _, _)
\* m is matchChunk's result i + 1 bytes into s
starTried(chunk, rest, s, i, m) ==
    IF m.ok
    THEN IF rest = << >> /\ m.rest # << >>
         THEN StarLoop(chunk, rest, s, i + 1)
         ELSE Match(rest, m.rest)
    ELSE IF m.err THEN BadPattern
    ELSE StarLoop(chunk, rest, s, i + 1)

\* "Look for match skipping i+1 bytes. Cannot skip /." (i is 0-based)
StarLoop(chunk, rest, s, i) ==
    IF i < Len(s) /\ s[i + 1] # Sep
    THEN starTried(chunk, rest, s, i, matchChunk(chunk, SubSeq(s, i + 2, Len(s))))
    ELSE [matched |-> FALSE, err |-> RestIsBad(rest)]

\* m is matchChunk's result at the current position
matchTried(sc, s, m) ==
    IF m.ok /\ (m.rest = << >> \/ sc.rest # << >>) THEN Match(sc.rest, m.rest)
    ELSE IF m.err THEN BadPattern
    ELSE IF sc.star THEN StarLoop(sc.chunk, sc.rest, s, 0)
    ELSE [matched |-> FALSE, err |-> RestIsBad(sc.rest)]

\* sc is scanChunk's result for the pattern left
matchScanned(sc, s) ==
    IF sc.star /\ sc.chunk = << >>
    THEN [matched |-> ~Contains(s, <<Sep>>), err |-> FALSE]
    ELSE matchTried(sc, s, matchChunk(sc.chunk, s))

\* filepath.Match(pattern, name): [matched, err], err being ErrBadPattern
Match(p, s) ==
    IF p = << >> THEN [matched |-> s = << >>, err |-> FALSE]
    ELSE matchScanned(scanChunk(p), s)

-----------------------------------------------------------------------------
(* internal/profile/engine.go *)

Star     == <<"*">>
StarStar == <<"*", "*">>

\* Mutant of globVerdict: the matcher's error is taken for a match
globVerdict_ErrorMatches(r) == IF r.err THEN TRUE ELSE r.matched

\* What matchPattern makes of filepath.Match's result: an invalid pattern is no match
globVerdict(r) == IF r.err THEN FALSE ELSE r.matched

globMatch(n, p) == globVerdict(Match(p, n))

\* Mutant of matchPattern: every pattern goes straight to the glob matcher
matchPattern_GlobOnly(n, p) == globMatch(n, p)

\* Mutant of matchPattern: "**" gets no handling of its own and is matched as a glob
matchPattern_StarStarAsGlob(n, p) ==
    IF p = Star \/ p = StarStar THEN TRUE
    ELSE IF n = p THEN TRUE
    ELSE IF Contains(p, Star) THEN globMatch(n, p)
    ELSE FALSE

\* The "middle **" case: parts is the pattern split at its first "**"
middleMatch(n, p, parts) ==
    IF Len(parts) = 2
    THEN HasPrefix(n, parts[1]) /\ HasSuffix(n, parts[2])
    ELSE globMatch(n, p)

matchPattern(n, p) ==
    IF p = Star \/ p = StarStar THEN TRUE
    ELSE IF n = p THEN TRUE
    ELSE IF Contains(p, Star)
    THEN IF Contains(p, StarStar)
         THEN IF HasSuffix(p, StarStar)
              THEN HasPrefix(n, TrimSuffix(p, StarStar))
              ELSE IF HasPrefix(p, StarStar)
              THEN HasSuffix(n, TrimPrefix(p, StarStar))
              ELSE middleMatch(n, p, SplitN2(p, StarStar))
         ELSE globMatch(n, p)
    ELSE FALSE

\* matchesAny: some pattern of the list matches
matchesAny(n, patterns) == \E i \in 1..Len(patterns) : matchPattern(n, patterns[i])

Kinds == {"tools", "resources", "prompts"}

\* Mutant of getFilter: the prompts closure returns the tools filter
getFilter_ToolsForPrompts(kind, spc) ==
    CASE kind = "tools"     -> spc.Tools
      [] kind = "resources" -> spc.Resources
      [] kind = "prompts"   -> spc.Tools

\* The closures IsToolAllowed, IsResourceAllowed and IsPromptAllowed pass to isAllowed
getFilter(kind, spc) ==
    CASE kind = "tools"     -> spc.Tools
      [] kind = "resources" -> spc.Resources
      [] kind = "prompts"   -> spc.Prompts

\* NewEngine
NewEngine(cfg, prof) == [config |-> cfg, profile |-> prof]

\* Mutant of isAllowed: the allow list is consulted before the deny list
isAllowed_AllowFirst(e, serverID, n, kind) ==
    IF e.profile \notin DOMAIN e.config.Profiles THEN FALSE
    ELSE LET profile == e.config.Profiles[e.profile]
         IN  IF serverID \notin DOMAIN profile.Servers THEN FALSE
             ELSE LET filter == getFilter(kind, profile.Servers[serverID])
                  IN  IF Len(filter.Allow) # 0 /\ matchesAny(n, filter.Allow) THEN TRUE
                      ELSE IF matchesAny(n, filter.Deny) THEN FALSE
                      ELSE Len(filter.Allow) = 0

\* Mutant of isAllowed: a missing profile or server means no restriction
isAllowed_FailOpen(e, serverID, n, kind) ==
    IF e.profile \notin DOMAIN e.config.Profiles THEN TRUE
    ELSE LET profile == e.config.Profiles[e.profile]
         IN  IF serverID \notin DOMAIN profile.Servers THEN TRUE
             ELSE LET filter == getFilter(kind, profile.Servers[serverID])
                  IN  IF matchesAny(n, filter.Deny) THEN FALSE
                      ELSE IF Len(filter.Allow) = 0 THEN TRUE
                      ELSE matchesAny(n, filter.Allow)

\* Mutant of isAllowed: an empty allow list allows nothing
isAllowed_EmptyAllowDenies(e, serverID, n, kind) ==
    IF e.profile \notin DOMAIN e.config.Profiles THEN FALSE
    ELSE LET profile == e.config.Profiles[e.profile]
         IN  IF serverID \notin DOMAIN profile.Servers THEN FALSE
             ELSE LET filter == getFilter(kind, profile.Servers[serverID])
                  IN  IF matchesAny(n, filter.Deny) THEN FALSE
                      ELSE matchesAny(n, filter.Allow)

\* Mutant of isAllowed: the deny lists of every server of the profile are consulted
isAllowed_SharedDeny(e, serverID, n, kind) ==
    IF e.profile \notin DOMAIN e.config.Profiles THEN FALSE
    ELSE LET profile == e.config.Profiles[e.profile]
         IN  IF serverID \notin DOMAIN profile.Servers THEN FALSE
             ELSE LET filter == getFilter(kind, profile.Servers[serverID])
                  IN  IF \E s \in DOMAIN profile.Servers :
                             matchesAny(n, getFilter(kind, profile.Servers[s]).Deny)
                      THEN FALSE
                      ELSE IF Len(filter.Allow) = 0 THEN TRUE
                      ELSE matchesAny(n, filter.Allow)

isAllowed(e, serverID, n, kind) ==
    IF e.profile \notin DOMAIN e.config.Profiles THEN FALSE
    ELSE LET profile == e.config.Profiles[e.profile]
         IN  IF serverID \notin DOMAIN profile.Servers THEN FALSE
             ELSE LET filter == getFilter(kind, profile.Servers[serverID])
                  IN  IF matchesAny(n, filter.Deny) THEN FALSE
                      ELSE IF Len(filter.Allow) = 0 THEN TRUE
                      ELSE matchesAny(n, filter.Allow)

IsToolAllowed(e, serverID, toolName) == isAllowed(e, serverID, toolName, "tools")

IsResourceAllowed(e, serverID, uri) == isAllowed(e, serverID, uri, "resources")

IsPromptAllowed(e, serverID, promptName) == isAllowed(e, serverID, promptName, "prompts")

\* The engine method a handler of the given kind calls
IsKindAllowed(e, kind, serverID, n) ==
    CASE kind = "tools"     -> IsToolAllowed(e, serverID, n)
      [] kind = "resources" -> IsResourceAllowed(e, serverID, n)
      [] kind = "prompts"   -> IsPromptAllowed(e, serverID, n)

-----------------------------------------------------------------------------
(* Idle values of the parts a specification does not exercise *)

NoFilter == [Allow |-> << >>, Deny |-> << >>]

EmptyConfig == [Profiles |-> << >>]

NotCalled == [called |-> FALSE, result |-> FALSE]

Returned(v) == [called |-> TRUE, result |-> v]

MatchIdle == pattern = << >> /\ name = << >> /\ matched = NotCalled

PolicyIdle ==
    /\ engine = NewEngine(EmptyConfig, "none")
    /\ query = [serverID |-> << >>, kind |-> "tools", name |-> << >>]
    /\ decision = NotCalled

HubIdle ==
    /\ config = EmptyConfig
    /\ profileName = "none"
    /\ prefixEnabled = FALSE
    /\ upstreams = {}
    /\ caps = << >>
    /\ resp = [type |-> "none"]

\* No PerServerProxy has been constructed
NoProxy == [serverID |-> << >>, upstream |-> [ID |-> << >>, Session |-> 0]]

ProxyIdle == proxy = NoProxy

\* No goroutine is inside the Manager
ManagerIdle ==
    /\ mu = [writer |-> "none", readers |-> {}]
    /\ threads = << >>
    /\ nextSession = 1

-----------------------------------------------------------------------------
(* SpecMatch: matchPattern applied to every pattern and name within the bounds *)

NameAlphabet == {"a", "/", "*", "["}

PatternAlphabet == NameAlphabet \cup {"]"}

MatchInit ==
    /\ pattern \in StrUpTo(PatternAlphabet, MaxPatLen)
    /\ name \in StrUpTo(NameAlphabet, MaxNameLen)
    /\ matched = NotCalled
    /\ PolicyIdle
    /\ HubIdle
    /\ ManagerIdle
    /\ ProxyIdle

DoMatchPattern ==
    /\ ~matched.called
    /\ matched' = Returned(matchPattern(name, pattern))
    /\ UNCHANGED <<pattern, name, policyVars, hubVars, mgrVars, proxyVars>>

MatchNext == DoMatchPattern

SpecMatch == MatchInit /\ [][MatchNext]_vars

-----------------------------------------------------------------------------
(* Claims about matchPattern, checked under SpecMatch *)

\* s = pre \o t for some t, stated without strings.HasPrefix
StartsWith(s, pre) == \E k \in 0..Len(s) : SubSeq(s, 1, k) = pre

\* s = t \o post for some t, stated without strings.HasSuffix
EndsWith(s, post) == \E k \in 1..(Len(s) + 1) : SubSeq(s, k, Len(s)) = post

\* p = pre \o "**"
IsStarStarSuffix(p) == Len(p) >= 2 /\ p[Len(p) - 1] = "*" /\ p[Len(p)] = "*"

\* p = "**" \o post
IsStarStarPrefix(p) == Len(p) >= 2 /\ p[1] = "*" /\ p[2] = "*"

HasStarStar(p) == \E i \in 1..(Len(p) - 1) : p[i] = "*" /\ p[i + 1] = "*"

\* The position of the first "**" of p
FirstStarStar(p) ==
    CHOOSE i \in 1..(Len(p) - 1) :
        /\ p[i] = "*" /\ p[i + 1] = "*"
        /\ \A j \in 1..(i - 1) : ~(p[j] = "*" /\ p[j + 1] = "*")

TextBefore(p) == SubSeq(p, 1, FirstStarStar(p) - 1)

TextAfter(p) == SubSeq(p, FirstStarStar(p) + 2, Len(p))

\* The glob matcher rejects p as syntactically invalid (filepath.ErrBadPattern)
Malformed(p) == RestIsBad(p)

\* C8: the pattern "*" alone and the pattern "**" alone match every name, and a
\* pattern equal to the name character for character matches it.
C8_WildcardsAndEquality ==
    matched.called =>
        /\ (pattern = <<"*">> => matched.result)
        /\ (pattern = <<"*", "*">> => matched.result)
        /\ (pattern = name => matched.result)

\* Reached: a pattern with glob metacharacters, malformed as a glob, was matched
\* against the name equal to it.
C8_Witness ==
    /\ matched.called /\ matched.result
    /\ pattern = name /\ Malformed(pattern) /\ Len(name) >= 2

\* C9 as stated: each of the three shapes decides the match on its own.
C9_Original ==
    (matched.called /\ HasStarStar(pattern) /\ pattern # <<"*", "*">>) =>
        /\ IsStarStarSuffix(pattern) =>
              (matched.result <=> StartsWith(name, SubSeq(pattern, 1, Len(pattern) - 2)))
        /\ IsStarStarPrefix(pattern) =>
              (matched.result <=> EndsWith(name, SubSeq(pattern, 3, Len(pattern))))
        /\ (~IsStarStarSuffix(pattern) /\ ~IsStarStarPrefix(pattern)) =>
              (matched.result <=> (StartsWith(name, TextBefore(pattern))
                                   /\ EndsWith(name, TextAfter(pattern))))

\* C9 (amended): for a pattern containing "**" and not equal to "**": if "**" is the
\* pattern's suffix it matches exactly the names that start with the text before
\* that suffix; otherwise, if "**" is the pattern's prefix, exactly the names that
\* end with the text after that prefix; otherwise exactly the names that start with
\* the text before the first "**" and end with the text after it.
C9_StarStarShapes ==
    (matched.called /\ HasStarStar(pattern) /\ pattern # <<"*", "*">>) =>
        /\ IsStarStarSuffix(pattern) =>
              (matched.result <=> StartsWith(name, SubSeq(pattern, 1, Len(pattern) - 2)))
        /\ (IsStarStarPrefix(pattern) /\ ~IsStarStarSuffix(pattern)) =>
              (matched.result <=> EndsWith(name, SubSeq(pattern, 3, Len(pattern))))
        /\ (~IsStarStarSuffix(pattern) /\ ~IsStarStarPrefix(pattern)) =>
              (matched.result <=> (StartsWith(name, TextBefore(pattern))
                                   /\ EndsWith(name, TextAfter(pattern))))

\* Reached: a suffix "**" matched a name that continues across a path separator
\* (the shape of file://docs/secret/** against a URI below it).
C9_Witness ==
    /\ matched.called /\ matched.result
    /\ pattern = <<"a", "/", "*", "*">>
    /\ name = <<"a", "/", "/">>

\* C10 as stated: a malformed pattern matches no name.
C10_Original ==
    (matched.called /\ Malformed(pattern)) => (matched.result = FALSE)

\* C10 (amended): matching a name against a malformed pattern always yields a
\* boolean, and yields a match only when the name equals the pattern character for
\* character or the pattern contains "**" (whose prefix and suffix tests are made
\* without consulting the glob matcher).
C10_MalformedNeverFails ==
    matched.called =>
        /\ matched.result \in BOOLEAN
        /\ (Malformed(pattern) /\ matched.result) =>
              (name = pattern \/ HasStarStar(pattern))

\* Reached: a malformed pattern with a single "*" went to the glob matcher, which
\* rejected it, against a name it would otherwise have matched.
C10_Witness ==
    /\ matched.called /\ ~matched.result
    /\ pattern = <<"[", "*">>
    /\ name = <<"[", "a">>

-----------------------------------------------------------------------------
(* SpecPolicy: the engine asked one question of a configuration drawn from *)
(* bounded sets of profiles, servers and component filters                 *)

MaxListLen == 2

ServerA == <<"a">>
ServerB == <<"b">>

PolicyPatterns == {<<"x">>, <<"*">>, <<"x", "*", "*">>, <<"x", "*">>}

PolicyNames == {<<"x">>, <<"y">>, <<"x", "/", "y">>}

PatternLists == StrUpTo(PolicyPatterns, MaxListLen)

\* config.ComponentFilter
Filters == [Allow : PatternLists, Deny : PatternLists]

AllowAll == [Allow |-> << >>, Deny |-> << >>]

DenyAll == [Allow |-> << >>, Deny |-> <<(<<"*", "*">>)>>]

\* config.ServerProfileConfig with filter f for one kind and g for the other two
ServerProfileConfig(kind, f, g) ==
    [Tools     |-> IF kind = "tools" THEN f ELSE g,
     Resources |-> IF kind = "resources" THEN f ELSE g,
     Prompts   |-> IF kind = "prompts" THEN f ELSE g]

\* config.RootConfig with profile "safe" holding the given servers, and a second
\* profile "dev" that lists both servers with no restriction
RootConfig(servers) ==
    [Profiles |-> ("safe" :> [Servers |-> servers])
               @@ ("dev" :> [Servers |-> (ServerA :> ServerProfileConfig("tools", AllowAll, AllowAll))
                                       @@ (ServerB :> ServerProfileConfig("tools", AllowAll, AllowAll))])]

PolicyInit ==
    /\ MatchIdle
    /\ HubIdle
    /\ ManagerIdle
    /\ ProxyIdle
    /\ decision = NotCalled
    /\ \E kind \in Kinds, n \in PolicyNames, g \in {AllowAll, DenyAll}, h \in {AllowAll, DenyAll} :
          \/ \* the profile is known and lists the server asked about
             \E f \in Filters :
                /\ engine = NewEngine(RootConfig((ServerA :> ServerProfileConfig(kind, f, g))
                                                 @@ (ServerB :> ServerProfileConfig(kind, h, h))),
                                      "safe")
                /\ query = [serverID |-> ServerA, kind |-> kind, name |-> n]
          \/ \* the profile is known and does not list the server asked about
             /\ engine = NewEngine(RootConfig(ServerA :> ServerProfileConfig(kind, h, g)), "safe")
             /\ query = [serverID |-> ServerB, kind |-> kind, name |-> n]
          \/ \* the engine's profile is not in the configuration
             /\ engine = NewEngine(RootConfig((ServerA :> ServerProfileConfig(kind, h, g))
                                              @@ (ServerB :> ServerProfileConfig(kind, g, h))),
                                   "ghost")
             /\ \E s \in {ServerA, ServerB} :
                   query = [serverID |-> s, kind |-> kind, name |-> n]

DoIsToolAllowed ==
    /\ ~decision.called
    /\ query.kind = "tools"
    /\ decision' = Returned(IsToolAllowed(engine, query.serverID, query.name))
    /\ UNCHANGED <<engine, query, matchVars, hubVars, mgrVars, proxyVars>>

DoIsResourceAllowed ==
    /\ ~decision.called
    /\ query.kind = "resources"
    /\ decision' = Returned(IsResourceAllowed(engine, query.serverID, query.name))
    /\ UNCHANGED <<engine, query, matchVars, hubVars, mgrVars, proxyVars>>

DoIsPromptAllowed ==
    /\ ~decision.called
    /\ query.kind = "prompts"
    /\ decision' = Returned(IsPromptAllowed(engine, query.serverID, query.name))
    /\ UNCHANGED <<engine, query, matchVars, hubVars, mgrVars, proxyVars>>

PolicyNext == DoIsToolAllowed \/ DoIsResourceAllowed \/ DoIsPromptAllowed

SpecPolicy == PolicyInit /\ [][PolicyNext]_vars

-----------------------------------------------------------------------------
(* Claims about the policy engine, checked under SpecPolicy *)

ProfileKnown == engine.profile \in DOMAIN engine.config.Profiles

ServerListed ==
    /\ ProfileKnown
    /\ query.serverID \in DOMAIN engine.config.Profiles[engine.profile].Servers

\* The component filter configured for the question's profile, server and kind
QueriedFilter ==
    LET spc == engine.config.Profiles[engine.profile].Servers[query.serverID]
    IN  IF query.kind = "tools" THEN spc.Tools
        ELSE IF query.kind = "resources" THEN spc.Resources
        ELSE spc.Prompts

\* Some pattern of the list matches the name
SomeMatches(n, list) == \E p \in {list[i] : i \in 1..Len(list)} : matchPattern(n, p)

\* C5: deny always wins: a name that matches at least one deny pattern is denied,
\* whatever the allow list contains.
C5_DenyWins ==
    (decision.called /\ ServerListed /\ SomeMatches(query.name, QueriedFilter.Deny))
        => (decision.result = FALSE)

\* Reached: a name matched by a deny pattern and by an allow pattern was denied.
C5_Witness ==
    /\ decision.called /\ ServerListed /\ ~decision.result
    /\ SomeMatches(query.name, QueriedFilter.Deny)
    /\ SomeMatches(query.name, QueriedFilter.Allow)
    /\ QueriedFilter.Allow # <<(<<"*">>)>>

\* C6: fail closed: an unknown profile, or a backend not listed under the profile,
\* denies every name of every kind, whatever other profiles and backends allow.
C6_FailClosed ==
    (decision.called /\ ~ServerListed) => (decision.result = FALSE)

\* Reached: a backend that the profile does not list was denied a name although
\* another profile of the configuration allows that backend everything.
C6_Witness ==
    /\ decision.called /\ ~decision.result
    /\ ProfileKnown /\ ~ServerListed
    /\ query.serverID \in DOMAIN engine.config.Profiles["dev"].Servers

\* C7: for a known profile and a listed backend the decision is the reference
\* rule: allowed iff no deny pattern matches and (the allow list is empty or some
\* allow pattern matches).
C7_ReferenceRule ==
    (decision.called /\ ServerListed) =>
        (decision.result <=>
            /\ ~SomeMatches(query.name, QueriedFilter.Deny)
            /\ (QueriedFilter.Allow = << >> \/ SomeMatches(query.name, QueriedFilter.Allow)))

\* Reached: with a non-empty allow list and an empty deny list, a name that no
\* allow pattern matches was denied.
C7_Witness ==
    /\ decision.called /\ ServerListed /\ ~decision.result
    /\ QueriedFilter.Allow # << >> /\ QueriedFilter.Deny = << >>
    /\ ~SomeMatches(query.name, QueriedFilter.Allow)

\* Reached: empty allow and empty deny allowed a name.
C7_WitnessAllowAll ==
    /\ decision.called /\ ServerListed /\ decision.result
    /\ QueriedFilter = [Allow |-> << >>, Deny |-> << >>]

-----------------------------------------------------------------------------
(* internal/upstream/manager.go and internal/proxy/hub.go *)

Colon == <<":">>

\* The backends of the configuration. Nothing in the configuration's validation
\* restricts the characters of a server id, so one id contains the separator.
HubServerIDs == {<<"a">>, <<"a", ":", "b">>}

NameX  == <<"x">>
NameY  == <<"y">>
NameBX == <<"b", ":", "x">>

\* What a backend answers to a list call: the same names for each kind
FullCaps == [id \in HubServerIDs |-> <<NameX, NameY, NameBX>>]

SparseCaps == (<<"a">> :> <<NameBX, NameY>>) @@ (<<"a", ":", "b">> :> <<NameX>>)

\* Per-server profile entries that differ between the kinds
OpenEntry == ServerProfileConfig("tools", AllowAll, AllowAll)

SafeEntry ==
    [Tools     |-> [Allow |-> <<NameX, NameBX>>, Deny |-> << >>],
     Resources |-> [Allow |-> <<(<<"*">>)>>, Deny |-> <<NameX>>],
     Prompts   |-> DenyAll]

StrictEntry ==
    [Tools     |-> [Allow |-> << >>, Deny |-> <<NameX>>],
     Resources |-> [Allow |-> <<(<<"b", ":", "*", "*">>)>>, Deny |-> << >>],
     Prompts   |-> [Allow |-> <<NameY>>, Deny |-> << >>]]

HubEntries == {OpenEntry, SafeEntry, StrictEntry}

\* The profile's server map: each backend is either left out or given an entry
HubServerMaps ==
    UNION {[listed -> HubEntries] : listed \in SUBSET HubServerIDs}

\* The references a client may send
CallRefs ==
    {NameX, NameY, NameBX}
    \cup {id \o Colon \o n : id \in HubServerIDs, n \in {NameX, NameY, NameBX}}

\* Hub.profileEngine
HubEngine == NewEngine(config, profileName)

\* Manager.upstreams after NewManager
NewManager == << >>

\* upstream.Upstream: the backend's id and its session
Upstream(id, session) == [ID |-> id, Session |-> session]

\* Mutant of Get: an id without a connection is answered with a connection
Get_AlwaysFound(serverID) ==
    IF serverID \in DOMAIN upstreams
    THEN [ok |-> TRUE, u |-> upstreams[serverID]]
    ELSE [ok |-> TRUE, u |-> Upstream(serverID, 0)]

\* Manager.Get
Get(serverID) ==
    IF serverID \in DOMAIN upstreams
    THEN [ok |-> TRUE, u |-> upstreams[serverID]]
    ELSE [ok |-> FALSE, u |-> Upstream(<< >>, 0)]

\* Manager.List: the registry's connections in the order the map iteration gives,
\* which Go leaves unspecified
ListOrders ==
    LET ids == DOMAIN upstreams
        n   == Cardinality(ids)
    IN  {o \in [1..n -> ids] : \A i, j \in 1..n : o[i] = o[j] => i = j}

\* fmt.Sprintf("%s:%s", u.ID, name)
Prefixed(id, n) == id \o Colon \o n

\* Mutant of ListPhaseAllowed: discovery returns what the backends list, unfiltered
ListPhaseAllowed_Skipped(kind, id, n) == TRUE

\* The list-phase check of a discovery handler
ListPhaseAllowed(kind, id, n) == IsKindAllowed(HubEngine, kind, id, n)

\* Mutant of CallPhaseAllowed: invocation relies on the list-phase check alone
CallPhaseAllowed_Skipped(kind, serverID, n) == TRUE

\* Mutant of CallPhaseAllowed: a backend the profile does not list is not restricted
CallPhaseAllowed_UnlistedOpen(kind, serverID, n) ==
    \/ profileName \notin DOMAIN config.Profiles
    \/ serverID \notin DOMAIN config.Profiles[profileName].Servers
    \/ IsKindAllowed(HubEngine, kind, serverID, n)

\* The call-phase check of a prefixed invocation
CallPhaseAllowed(kind, serverID, n) == IsKindAllowed(HubEngine, kind, serverID, n)

\* Mutant of ProbeAllowed: the probing loop asks no policy
ProbeAllowed_Skipped(kind, id, n) == TRUE

\* The check made for each backend probed by an unprefixed invocation
ProbeAllowed(kind, id, n) == IsKindAllowed(HubEngine, kind, id, n)

\* Mutant of EmittedName: a name the discovery answered just before emitted is taken
\* from that answer and prefixed again
EmittedName_PrefixedAgain(id, n) ==
    IF ~prefixEnabled THEN n
    ELSE IF /\ resp.type = "list"
            /\ \E i \in 1..Len(resp.records) : resp.records[i].emitted = Prefixed(id, n)
    THEN Prefixed(id, Prefixed(id, n))
    ELSE Prefixed(id, n)

\* The name a discovery handler emits for a surviving record
EmittedName(id, n) == IF prefixEnabled THEN Prefixed(id, n) ELSE n

\* The inner loop of a discovery handler over one backend's result
RECURSIVE FilterRecords(_, _, _)
FilterRecords(kind, id, names) ==
    IF names = << >> THEN << >>
    ELSE LET n    == Head(names)
             rest == FilterRecords(kind, id, Tail(names))
         IN  IF ~ListPhaseAllowed(kind, id, n) THEN rest
             ELSE <<[owner |-> id, native |-> n, emitted |-> EmittedName(id, n)]>> \o rest

\* Mutant of Aggregate: a backend's error ends the aggregation (break for continue)
RECURSIVE Aggregate_AbortOnError(_, _, _)
Aggregate_AbortOnError(kind, order, failing) ==
    IF order = << >> THEN << >>
    ELSE IF upstreams[Head(order)].ID \in failing THEN << >>
    ELSE FilterRecords(kind, upstreams[Head(order)].ID, caps[upstreams[Head(order)].ID])
         \o Aggregate_AbortOnError(kind, Tail(order), failing)

\* The outer loop of a discovery handler: failing are the backends whose list call errs
RECURSIVE Aggregate(_, _, _)
Aggregate(kind, order, failing) ==
    IF order = << >> THEN << >>
    ELSE LET u == upstreams[Head(order)]
         IN  (IF u.ID \in failing THEN << >> ELSE FilterRecords(kind, u.ID, caps[u.ID]))
             \o Aggregate(kind, Tail(order), failing)

\* handleToolsList, handleResourcesList, handlePromptsList
handleList(kind, order, failing) ==
    [type    |-> "list",
     kind    |-> kind,
     reg     |-> DOMAIN upstreams,
     failed  |-> failing,
     records |-> Aggregate(kind, order, failing)]

\* An upstream CallTool, ReadResource or GetPrompt: it succeeds when the backend
\* has the capability and does not fail this call
UpstreamOK(id, n, failing) ==
    /\ id \notin failing
    /\ \E i \in 1..Len(caps[id]) : caps[id][i] = n

\* The records of the discovery answered just before, of the same kind and over the
\* same registry, that carry the reference now invoked
EmittedBy(kind, ref) ==
    IF resp.type = "list" /\ resp.kind = kind /\ resp.reg = DOMAIN upstreams
    THEN {[owner |-> resp.records[i].owner, native |-> resp.records[i].native] :
            i \in {j \in 1..Len(resp.records) : resp.records[j].emitted = ref}}
    ELSE {}

\* The errors a handler returns: nil, the error a backend returned (passed on as it
\* is), and the handler's own messages
ErrNil == "nil"

ErrUpstream == "the backend's error"

ErrMalformed == "must be in format 'server:name' when prefixing is enabled"

ErrUnknownBackend == "upstream server not found"

ErrDenied == "is not allowed by profile"

ErrProbeFailed == "allowed by profile but call failed"

ErrNotFound == "not found in any upstream or not allowed by profile"

CallResp(kind, ref, outcome, err, lastErr, serverID, actual, lookups, checks, forwards) ==
    [type      |-> "call",
     kind      |-> kind,
     ref       |-> ref,
     reg       |-> DOMAIN upstreams,
     outcome   |-> outcome,
     err       |-> err,
     lastErr   |-> lastErr,
     serverID  |-> serverID,
     actual    |-> actual,
     lookups   |-> lookups,
     checks    |-> checks,
     forwards  |-> forwards,
     emittedBy |-> EmittedBy(kind, ref)]

\* Mutant of Probe: a success does not end the loop, every permitted backend of the
\* registry is called
RECURSIVE Probe_KeepsGoing(_, _, _, _, _, _, _)
Probe_KeepsGoing(kind, ref, order, failing, lastErr, checks, forwards) ==
    IF order = << >>
    THEN CallResp(kind, ref,
                  IF lastErr # << >> THEN "call_failed" ELSE "not_found_or_not_allowed",
                  IF lastErr # << >> THEN ErrProbeFailed ELSE ErrNotFound,
                  lastErr, << >>, << >>, << >>, checks, forwards)
    ELSE IF ~ProbeAllowed(kind, upstreams[Head(order)].ID, ref)
    THEN Probe_KeepsGoing(kind, ref, Tail(order), failing, lastErr,
                          Append(checks, [serverID |-> upstreams[Head(order)].ID, name |-> ref]),
                          forwards)
    ELSE Probe_KeepsGoing(kind, ref, Tail(order), failing, upstreams[Head(order)].ID,
                          Append(checks, [serverID |-> upstreams[Head(order)].ID, name |-> ref]),
                          Append(forwards,
                                 [backend |-> upstreams[Head(order)].ID, name |-> ref,
                                  ok |-> UpstreamOK(upstreams[Head(order)].ID, ref, failing)]))

\* The probing loop of an unprefixed invocation; lastErr is << >> for nil and
\* otherwise names the backend whose error it holds
RECURSIVE Probe(_, _, _, _, _, _, _)
Probe(kind, ref, order, failing, lastErr, checks, forwards) ==
    IF order = << >>
    THEN CallResp(kind, ref,
                  IF lastErr # << >> THEN "call_failed" ELSE "not_found_or_not_allowed",
                  IF lastErr # << >> THEN ErrProbeFailed ELSE ErrNotFound,
                  lastErr, << >>, << >>, << >>, checks, forwards)
    ELSE LET u  == upstreams[Head(order)]
             ck == Append(checks, [serverID |-> u.ID, name |-> ref])
         IN  IF ~ProbeAllowed(kind, u.ID, ref)
             THEN Probe(kind, ref, Tail(order), failing, lastErr, ck, forwards)
             ELSE IF UpstreamOK(u.ID, ref, failing)
             THEN CallResp(kind, ref, "ok", ErrNil, << >>, << >>, << >>, << >>, ck,
                           Append(forwards, [backend |-> u.ID, name |-> ref, ok |-> TRUE]))
             ELSE Probe(kind, ref, Tail(order), failing, u.ID, ck,
                        Append(forwards, [backend |-> u.ID, name |-> ref, ok |-> FALSE]))

\* The prefixed path past the split: the lookup, the call-phase check, the forward
routeCall(kind, ref, serverID, actual, got, failing) ==
    IF ~got.ok
    THEN CallResp(kind, ref, "unknown_backend", ErrUnknownBackend, << >>, serverID, actual,
                  <<serverID>>, << >>, << >>)
    ELSE IF ~CallPhaseAllowed(kind, serverID, actual)
    THEN CallResp(kind, ref, "denied", ErrDenied, << >>, serverID, actual, <<serverID>>,
                  <<[serverID |-> serverID, name |-> actual]>>, << >>)
    ELSE IF UpstreamOK(got.u.ID, actual, failing)
    THEN CallResp(kind, ref, "ok", ErrNil, << >>, serverID, actual, <<serverID>>,
                  <<[serverID |-> serverID, name |-> actual]>>,
                  <<[backend |-> got.u.ID, name |-> actual, ok |-> TRUE]>>)
    ELSE CallResp(kind, ref, "call_failed", ErrUpstream, got.u.ID, serverID, actual, <<serverID>>,
                  <<[serverID |-> serverID, name |-> actual]>>,
                  <<[backend |-> got.u.ID, name |-> actual, ok |-> FALSE]>>)

\* Mutant of splitRef: a reference without the separator names no backend and is
\* routed with an empty backend id
splitRef_NoSeparatorRoutes(kind, ref, parts, failing) ==
    IF Len(parts) # 2
    THEN routeCall(kind, ref, << >>, ref, Get(<< >>), failing)
    ELSE routeCall(kind, ref, parts[1], parts[2], Get(parts[1]), failing)

\* The prefixed path: parts is strings.SplitN(ref, ":", 2)
splitRef(kind, ref, parts, failing) ==
    IF Len(parts) # 2
    THEN CallResp(kind, ref, "malformed", ErrMalformed, << >>, << >>, << >>, << >>, << >>, << >>)
    ELSE routeCall(kind, ref, parts[1], parts[2], Get(parts[1]), failing)

\* handleToolsCall, handleResourcesRead, handlePromptsGet
handleCall(kind, ref, order, failing) ==
    IF prefixEnabled
    THEN splitRef(kind, ref, SplitN2(ref, Colon), failing)
    ELSE Probe(kind, ref, order, failing, << >>, << >>, << >>)

-----------------------------------------------------------------------------
(* Spec: the hub serving discoveries and invocations over a changing registry *)

Init ==
    /\ MatchIdle
    /\ PolicyIdle
    /\ ManagerIdle
    /\ ProxyIdle
    /\ upstreams = NewManager
    /\ resp = [type |-> "none"]
    /\ prefixEnabled \in BOOLEAN
    /\ caps \in {FullCaps, SparseCaps}
    /\ \/ /\ profileName = "safe"
          /\ \E servers \in HubServerMaps : config = RootConfig(servers)
       \/ /\ profileName = "ghost"
          /\ config = RootConfig([id \in HubServerIDs |-> OpenEntry])

\* Manager.Connect; the sessions of the registry are numbered in the order in which
\* they were registered since the registry was last emptied
Connect ==
    /\ \E serverID \in HubServerIDs :
          IF serverID \in DOMAIN upstreams
          THEN UNCHANGED upstreams
          ELSE \/ upstreams' = upstreams @@
                     (serverID :> Upstream(serverID, Cardinality(DOMAIN upstreams) + 1))
               \/ UNCHANGED upstreams
    /\ UNCHANGED <<matchVars, policyVars, mgrVars, proxyVars, config, profileName, prefixEnabled, caps, resp>>

\* Manager.Close
Close ==
    /\ upstreams' = NewManager
    /\ UNCHANGED <<matchVars, policyVars, mgrVars, proxyVars, config, profileName, prefixEnabled, caps, resp>>

HandleList(kind) ==
    /\ \E order \in ListOrders, failing \in SUBSET DOMAIN upstreams :
          resp' = handleList(kind, order, failing)
    /\ UNCHANGED <<matchVars, policyVars, mgrVars, proxyVars, config, profileName, prefixEnabled, caps, upstreams>>

HandleCall(kind) ==
    /\ \E ref \in CallRefs, order \in ListOrders, failing \in SUBSET DOMAIN upstreams :
          resp' = handleCall(kind, ref, order, failing)
    /\ UNCHANGED <<matchVars, policyVars, mgrVars, proxyVars, config, profileName, prefixEnabled, caps, upstreams>>

HandleToolsList == HandleList("tools")

HandleToolsCall == HandleCall("tools")

HandleResourcesList == HandleList("resources")

HandleResourcesRead == HandleCall("resources")

HandlePromptsList == HandleList("prompts")

HandlePromptsGet == HandleCall("prompts")

Next ==
    \/ Connect
    \/ Close
    \/ HandleToolsList
    \/ HandleToolsCall
    \/ HandleResourcesList
    \/ HandleResourcesRead
    \/ HandlePromptsList
    \/ HandlePromptsGet

Spec == Init /\ [][Next]_vars

-----------------------------------------------------------------------------
(* Claims about the hub, checked under Spec *)

\* The policy engine's answer for the hub's profile
PolicyAllows(kind, id, n) == IsKindAllowed(NewEngine(config, profileName), kind, id, n)

\* Backend id exposes the name upstream
ExistsUpstream(id, n) == \E i \in 1..Len(caps[id]) : caps[id][i] = n

\* C1: for each of the three invocation operations, in prefix mode and in no-prefix
\* mode, an upstream call for name n is forwarded to backend B only if the policy
\* engine allows (profile, B, kind, n); a denied name is never forwarded, even when
\* the capability exists upstream and the caller supplies its exact name.
C1_ForwardOnlyIfAllowed ==
    (resp.type = "call") =>
        \A i \in 1..Len(resp.forwards) :
            PolicyAllows(resp.kind, resp.forwards[i].backend, resp.forwards[i].name)

\* Reached: an unprefixed invocation probed two backends that both expose the name;
\* the policy denied it on the first, which got no call, and the second served it.
C1_Witness ==
    /\ resp.type = "call" /\ ~prefixEnabled /\ resp.outcome = "ok"
    /\ Len(resp.checks) = 2 /\ Len(resp.forwards) = 1
    /\ resp.forwards[1].backend = resp.checks[2].serverID
    /\ ExistsUpstream(resp.checks[1].serverID, resp.ref)
    /\ ~PolicyAllows(resp.kind, resp.checks[1].serverID, resp.ref)

\* C2: every record a discovery returns is one the policy engine allows for (the
\* hub's profile, the record's owning backend, the kind, the record's native name).
\* With profile "safe" and a backend whose tools filter allows only two names,
\* prefixed discovery returns for that backend only those two names, prefixed,
\* whatever else the backend exposes.
C2_DiscoveryIsFiltered ==
    (resp.type = "list") =>
        /\ \A i \in 1..Len(resp.records) :
              PolicyAllows(resp.kind, resp.records[i].owner, resp.records[i].native)
        /\ ( /\ prefixEnabled /\ resp.kind = "tools" /\ profileName = "safe"
             /\ <<"a">> \in DOMAIN config.Profiles["safe"].Servers
             /\ config.Profiles["safe"].Servers[<<"a">>].Tools
                   = [Allow |-> <<(<<"x">>), (<<"b", ":", "x">>)>>, Deny |-> << >>] )
           => \A i \in 1..Len(resp.records) :
                 resp.records[i].owner = <<"a">> =>
                    resp.records[i].emitted \in {<<"a", ":", "x">>, <<"a", ":", "b", ":", "x">>}

\* Reached: a prefixed tools discovery over a backend that exposes three names, of
\* which the profile allows two, returned exactly those two.
C2_Witness ==
    /\ resp.type = "list" /\ prefixEnabled /\ resp.kind = "tools" /\ profileName = "safe"
    /\ caps = FullCaps
    /\ <<"a">> \in DOMAIN config.Profiles["safe"].Servers
    /\ config.Profiles["safe"].Servers[<<"a">>] = SafeEntry
    /\ {resp.records[i].emitted : i \in {j \in 1..Len(resp.records) : resp.records[j].owner = <<"a">>}}
          = {<<"a", ":", "x">>, <<"a", ":", "b", ":", "x">>}

Rejections == {"malformed", "unknown_backend", "denied", "not_found_or_not_allowed"}

\* C3: with profile, configuration and registry unchanged between the two calls, a
\* reference emitted by a discovery is invokable with that exact reference: the
\* invocation is not rejected as malformed, unknown-backend or policy-denied, and
\* its policy check is evaluated on the (backend id, native name) of a record that
\* emitted the reference.
C3_DiscoveredIsInvokable ==
    (resp.type = "call" /\ resp.emittedBy # {}) =>
        /\ resp.outcome \notin Rejections
        /\ \A i \in 1..Len(resp.checks) :
              resp.checks[i].name \in {rec.native : rec \in resp.emittedBy}
        /\ prefixEnabled =>
              \E rec \in resp.emittedBy :
                 resp.checks = <<[serverID |-> rec.owner, name |-> rec.native]>>

\* C4: round trip of the prefix encoding: the reference emitted for (b, n) by
\* prefixed discovery resolves, in prefixed invocation, to backend id b and native
\* name n, and no two (backend id, native name) pairs share an emitted reference.
C4_RoundTripBijection ==
    /\ (prefixEnabled /\ resp.type = "call" /\ resp.emittedBy # {}) =>
          \A rec \in resp.emittedBy :
             resp.serverID = rec.owner /\ resp.actual = rec.native
    /\ (prefixEnabled /\ resp.type = "list") =>
          \A i, j \in 1..Len(resp.records) :
             resp.records[i].emitted = resp.records[j].emitted =>
                /\ resp.records[i].owner = resp.records[j].owner
                /\ resp.records[i].native = resp.records[j].native


\* The orders in which the backends of S can be visited
OrdersOf(S) ==
    {o \in [1..Cardinality(S) -> S] : \A i, j \in 1..Cardinality(S) : o[i] = o[j] => i = j}

\* What a discovery owes for one backend whose list call succeeded: the names the
\* policy allows, in the backend's order, under the name the mode prescribes
ExpectedRecords(kind, id) ==
    LET Allowed(n) == PolicyAllows(kind, id, n)
        kept       == SelectSeq(caps[id], Allowed)
    IN  [i \in 1..Len(kept) |->
            [owner   |-> id,
             native  |-> kept[i],
             emitted |-> IF prefixEnabled THEN id \o <<":">> \o kept[i] ELSE kept[i]]]

RECURSIVE ExpectedAggregate(_, _, _)
ExpectedAggregate(kind, order, failed) ==
    IF order = << >> THEN << >>
    ELSE (IF Head(order) \in failed THEN << >> ELSE ExpectedRecords(kind, Head(order)))
         \o ExpectedAggregate(kind, Tail(order), failed)

\* C16: a discovery never fails as a whole because of a backend: for any subset of
\* the registered backends whose list call errors, the discovery answers with a
\* result, and the result is exactly the concatenation, in some order of the
\* backends, of the policy-filtered records of the backends whose call succeeded.
C16_PartialFailure ==
    (resp.type = "list") =>
        \E o \in OrdersOf(resp.reg) :
            resp.records = ExpectedAggregate(resp.kind, o, resp.failed)

\* Reached: of two registered backends the list call of one failed, although that
\* backend has records the policy allows, and the discovery returned exactly the
\* other backend's filtered records.
C16_Witness ==
    /\ resp.type = "list"
    /\ resp.reg = HubServerIDs
    /\ resp.failed = {<<"a">>}
    /\ ExpectedRecords(resp.kind, <<"a">>) # << >>
    /\ resp.records # << >>
    /\ resp.records = ExpectedRecords(resp.kind, <<"a", ":", "b">>)

HasSeparator(ref) == \E i \in 1..Len(ref) : ref[i] = ":"

\* The text of a reference before its first separator
DecodedID(ref) ==
    LET k == CHOOSE i \in 1..Len(ref) : ref[i] = ":" /\ \A j \in 1..(i - 1) : ref[j] # ":"
    IN  SubSeq(ref, 1, k - 1)

\* C18: in prefix mode an invocation (tool, resource or prompt) whose reference
\* contains no ':' is rejected as malformed, and no backend lookup, policy check or
\* upstream call is made for it.
C18_MalformedReference ==
    (resp.type = "call" /\ prefixEnabled /\ ~HasSeparator(resp.ref)) =>
        /\ resp.outcome = "malformed"
        /\ resp.lookups = << >>
        /\ resp.checks = << >>
        /\ resp.forwards = << >>

\* Reached: in prefix mode a bare name was rejected as malformed although a
\* registered backend exposes it and the policy allows it there.
C18_Witness ==
    /\ resp.type = "call" /\ prefixEnabled /\ resp.outcome = "malformed"
    /\ resp.kind = "prompts"
    /\ \E id \in resp.reg :
          ExistsUpstream(id, resp.ref) /\ PolicyAllows(resp.kind, id, resp.ref)

\* C19: in prefix mode an invocation whose decoded backend id has no connection in
\* the registry fails as unknown-backend and no upstream call is made; the backend
\* is resolved before the policy is asked, so no policy check is made for it, and
\* every policy check made follows a lookup that found its backend.
C19_UnknownBackend ==
    (resp.type = "call" /\ prefixEnabled /\ HasSeparator(resp.ref)) =>
        /\ (DecodedID(resp.ref) \notin resp.reg) =>
              /\ resp.outcome = "unknown_backend"
              /\ resp.lookups = <<DecodedID(resp.ref)>>
              /\ resp.checks = << >>
              /\ resp.forwards = << >>
        /\ (resp.checks # << >>) =>
              /\ resp.lookups = <<resp.checks[1].serverID>>
              /\ resp.checks[1].serverID \in resp.reg

\* Reached: the decoded backend is not connected and the policy denies the name on
\* it; the invocation failed as unknown-backend, not as policy-denied, while
\* another backend was connected.
C19_Witness ==
    /\ resp.type = "call" /\ prefixEnabled /\ resp.outcome = "unknown_backend"
    /\ resp.reg = {<<"a", ":", "b">>}
    /\ resp.serverID = <<"a">>
    /\ ~PolicyAllows(resp.kind, resp.serverID, resp.actual)

\* The backends an unprefixed invocation probed, in order
Probed == [i \in 1..Len(resp.checks) |-> resp.checks[i].serverID]

\* The backends an unprefixed invocation forwarded to, in order
Tried == [i \in 1..Len(resp.forwards) |-> resp.forwards[i].backend]

\* C20: outcome of an unprefixed invocation: the hub skips every backend where the
\* policy denies the reference and forwards to every other backend it probes; it
\* succeeds iff a forward succeeds, which is then the last forward and the last
\* probe (the first permitted backend whose forward succeeds; none is probed after
\* it); without a success every registered backend was probed; if a permitted
\* backend was tried and none succeeded the error is the last failure; if none was
\* permitted the error is the distinct not-found-or-not-allowed one.
C20_ProbeOutcome ==
    (resp.type = "call" /\ ~prefixEnabled) =>
        LET Permitted(id) == PolicyAllows(resp.kind, id, resp.ref)
            nf            == Len(resp.forwards)
        IN  /\ \A i, j \in 1..Len(Probed) : Probed[i] = Probed[j] => i = j
            /\ \A i \in 1..Len(Probed) : Probed[i] \in resp.reg /\ resp.checks[i].name = resp.ref
            /\ Tried = SelectSeq(Probed, Permitted)
            /\ \A i \in 1..nf : resp.forwards[i].name = resp.ref
            /\ \A i \in 1..(nf - 1) : ~resp.forwards[i].ok
            /\ (resp.outcome = "ok") <=> (nf > 0 /\ resp.forwards[nf].ok)
            /\ (resp.outcome = "ok") => (Probed[Len(Probed)] = Tried[nf])
            /\ (resp.outcome # "ok") => (Len(Probed) = Cardinality(resp.reg))
            /\ (nf > 0 /\ ~resp.forwards[nf].ok) =>
                  (resp.outcome = "call_failed" /\ resp.lastErr = Tried[nf])
            /\ (nf = 0) => (resp.outcome = "not_found_or_not_allowed")

\* Reached: two backends expose the name, the policy permits it only on the second
\* probed; the invocation succeeded against that one and the first got no call.
C20_Witness ==
    /\ resp.type = "call" /\ ~prefixEnabled /\ resp.outcome = "ok"
    /\ resp.kind = "tools" /\ resp.ref = NameX
    /\ Probed = <<(<<"a">>), (<<"a", ":", "b">>)>>
    /\ Tried = <<(<<"a", ":", "b">>)>>
    /\ ExistsUpstream(<<"a">>, NameX)

\* Reached: two permitted backends were tried and both failed; the error surfaced
\* is the second's.
C20_WitnessLastFailure ==
    /\ resp.type = "call" /\ ~prefixEnabled /\ resp.outcome = "call_failed"
    /\ Len(resp.forwards) = 2
    /\ resp.lastErr = resp.forwards[2].backend


-----------------------------------------------------------------------------
(* SpecManager: goroutines calling Connect, Close, Get and List on one Manager, *)
(* at the granularity of lock operations and upstream calls                     *)

MaxSessions == 2

Threads == {"t1", "t2", "t3"}

ManagerIDs == {ServerA, ServerB}

\* serverCfg.Transport.Kind: the two kinds Connect knows and one it does not
TransportKinds == {"stdio", "http", "ws"}

\* serverCfg.Transport.Headers of a backend configured with transport kind http
ConfiguredHeaders ==
    {[name |-> "Authorization", value |-> "Bearer token"], [name |-> "X-Team", value |-> "core"]}

\* The config.ServerConfig passed to Connect for a transport kind
ServerConfig(kind) ==
    [Transport |-> [Kind |-> kind,
                    Headers |-> IF kind = "http" THEN ConfiguredHeaders ELSE {}]]

\* No transport built; a transport is [kind, headers], headers being what it adds to
\* each outbound request
NoTransport == [kind |-> "none", headers |-> {}]

\* createStdioTransport: a command transport, which sends no HTTP request
createStdioTransport(serverCfg) == [kind |-> "stdio", headers |-> {}]

\* createHTTPTransport: a StreamableClientTransport given the endpoint alone, so
\* with the default HTTP client, which adds no header
createHTTPTransport(serverCfg) == [kind |-> "http", headers |-> {}]

\* What a request has to return before its handler has decided: outcome, error and
\* the records of a discovery
NoResult == [outcome |-> "none", err |-> "nil", records |-> << >>]

\* A goroutine outside the Manager; calls are the backends a request handler has
\* issued an upstream call to, result is what it returns to the client
IdleThread ==
    [op |-> "none", pc |-> "idle", id |-> << >>, kind |-> "none", snap |-> << >>,
     order |-> << >>, pending |-> << >>, closed |-> {}, errs |-> {}, hs |-> "none",
     err |-> "nil", got |-> Upstream(<< >>, 0), transport |-> NoTransport,
     calls |-> << >>, result |-> NoResult]

\* The goroutine's state when it enters op with the given arguments
Entering(op, pc, id, kind) ==
    [IdleThread EXCEPT !.op = op, !.pc = pc, !.id = id, !.kind = kind]

\* Mutant of CanLock: Lock does not wait for the readers to leave
CanLock_IgnoresReaders == mu.writer = "none"

\* sync.RWMutex.Lock returns: no writer and no reader holds the mutex
CanLock == mu.writer = "none" /\ mu.readers = {}

\* A goroutine is blocked in Lock
WriterWaiting == \E t \in Threads : threads[t].pc \in {"connect_lock", "close_lock"}

\* Mutant of CanRLock: RLock does not wait for a writer
CanRLock_IgnoresWriter == TRUE

\* sync.RWMutex.RLock returns: no writer holds the mutex and none is waiting for it
CanRLock == mu.writer = "none" /\ ~WriterWaiting

\* Mutant of alreadyConnected: Connect does not look for an existing connection
alreadyConnected_Never(serverID) == FALSE

\* The test at the head of Connect
alreadyConnected(serverID) == serverID \in DOMAIN upstreams

\* The switch on serverCfg.Transport.Kind
knownTransport(kind) == kind \in {"stdio", "http"}

\* m.upstreams[serverID] = u
storeUpstream(serverID, u) ==
    [x \in DOMAIN upstreams \cup {serverID} |-> IF x = serverID THEN u ELSE upstreams[x]]

\* Mutant of afterHandshake: the entry is stored whatever the handshake returned
afterHandshake_StoresAlways(serverID, ok) ==
    storeUpstream(serverID, Upstream(serverID, nextSession))

\* m.upstreams after client.Connect returned
afterHandshake(serverID, ok) ==
    IF ok THEN storeUpstream(serverID, Upstream(serverID, nextSession)) ELSE upstreams

\* Mutant of closeNext: the loop of Close ends at the first session that fails to close
closeNext_AbortOnError(pending, ok) == IF ok THEN Tail(pending) ELSE << >>

\* What the loop of Close has left to visit after one Session.Close returned
closeNext(pending, ok) == Tail(pending)

ManagerInit ==
    /\ MatchIdle
    /\ PolicyIdle
    /\ config = EmptyConfig
    /\ profileName = "none"
    /\ prefixEnabled = FALSE
    /\ caps = << >>
    /\ resp = [type |-> "none"]
    /\ upstreams = NewManager
    /\ mu = [writer |-> "none", readers |-> {}]
    /\ threads = [t \in Threads |-> IdleThread]
    /\ nextSession = 1
    /\ ProxyIdle

mgrFrame == <<matchVars, policyVars, proxyVars, config, profileName, prefixEnabled, caps, resp>>

Outside(t) == threads[t].pc = "idle"

At(t, pc) == threads[t].pc = pc

(* Manager.Connect *)

CallConnect(t) ==
    /\ Outside(t)
    /\ nextSession <= MaxSessions
    /\ \E serverID \in ManagerIDs, kind \in TransportKinds :
          threads' = [threads EXCEPT ![t] = Entering("Connect", "connect_lock", serverID, kind)]
    /\ UNCHANGED <<mgrFrame, upstreams, mu, nextSession>>

\* m.mu.Lock()
ConnectLock(t) ==
    /\ At(t, "connect_lock")
    /\ CanLock
    /\ mu' = [mu EXCEPT !.writer = t]
    /\ threads' = [threads EXCEPT ![t].pc = "connect_body", ![t].snap = upstreams]
    /\ UNCHANGED <<mgrFrame, upstreams, nextSession>>

\* The existence test and the transport switch; past them client.Connect is called
ConnectBody(t) ==
    /\ At(t, "connect_body")
    /\ threads' =
          IF alreadyConnected(threads[t].id)
          THEN [threads EXCEPT ![t].pc = "connect_unlock",
                               ![t].err = "already connected to server"]
          ELSE IF ~knownTransport(threads[t].kind)
          THEN [threads EXCEPT ![t].pc = "connect_unlock",
                               ![t].err = "unsupported transport kind"]
          ELSE [threads EXCEPT
                   ![t].pc = "connect_handshake",
                   ![t].transport =
                       IF threads[t].kind = "stdio"
                       THEN createStdioTransport(ServerConfig(threads[t].kind))
                       ELSE createHTTPTransport(ServerConfig(threads[t].kind))]
    /\ UNCHANGED <<mgrFrame, upstreams, mu, nextSession>>

\* client.Connect returns, with a session or with an error; its requests went out
\* through the transport built before
ConnectHandshake(t) ==
    /\ At(t, "connect_handshake")
    /\ \E ok \in BOOLEAN :
          /\ upstreams' = afterHandshake(threads[t].id, ok)
          /\ nextSession' = IF ok THEN nextSession + 1 ELSE nextSession
          /\ threads' = [threads EXCEPT
                ![t].pc = "connect_unlock",
                ![t].hs = IF ok THEN "ok" ELSE "failed",
                ![t].err = IF ok THEN "nil" ELSE "failed to connect to server"]
    /\ UNCHANGED <<mgrFrame, mu>>

\* The deferred m.mu.Unlock() and the return, which leaves the goroutine outside
ConnectUnlock(t) ==
    /\ At(t, "connect_unlock")
    /\ mu' = [mu EXCEPT !.writer = "none"]
    /\ threads' = [threads EXCEPT ![t] = IdleThread]
    /\ UNCHANGED <<mgrFrame, upstreams, nextSession>>

(* Manager.Close *)

CallClose(t) ==
    /\ Outside(t)
    /\ threads' = [threads EXCEPT ![t] = Entering("Close", "close_lock", << >>, "none")]
    /\ UNCHANGED <<mgrFrame, upstreams, mu, nextSession>>

\* m.mu.Lock(); the range over the map then visits the entries in some order
CloseLock(t) ==
    /\ At(t, "close_lock")
    /\ CanLock
    /\ mu' = [mu EXCEPT !.writer = t]
    /\ \E order \in ListOrders :
          threads' = [threads EXCEPT ![t].pc = "close_loop", ![t].snap = upstreams,
                                     ![t].order = order, ![t].pending = order]
    /\ UNCHANGED <<mgrFrame, upstreams, nextSession>>

\* upstream.Session.Close() is called on the next entry
CloseIssue(t) ==
    /\ At(t, "close_loop")
    /\ threads[t].pending # << >>
    /\ threads' = [threads EXCEPT ![t].pc = "close_wait"]
    /\ UNCHANGED <<mgrFrame, upstreams, mu, nextSession>>

\* upstream.Session.Close() returns, with or without an error
CloseSession(t) ==
    /\ At(t, "close_wait")
    /\ \E ok \in BOOLEAN :
          threads' = [threads EXCEPT
             ![t].pc = "close_loop",
             ![t].closed = @ \cup {upstreams[Head(threads[t].pending)].Session},
             ![t].errs = IF ok THEN @ ELSE @ \cup {Head(threads[t].pending)},
             ![t].pending = closeNext(@, ok)]
    /\ UNCHANGED <<mgrFrame, upstreams, mu, nextSession>>

\* m.upstreams = make(map[string]*Upstream) and the aggregate error
CloseClear(t) ==
    /\ At(t, "close_loop")
    /\ threads[t].pending = << >>
    /\ upstreams' = NewManager
    /\ threads' = [threads EXCEPT
          ![t].pc = "close_unlock",
          ![t].err = IF threads[t].errs # {} THEN "errors closing upstreams" ELSE "nil"]
    /\ UNCHANGED <<mgrFrame, mu, nextSession>>

\* The deferred m.mu.Unlock() and the return, which leaves the goroutine outside
CloseUnlock(t) ==
    /\ At(t, "close_unlock")
    /\ mu' = [mu EXCEPT !.writer = "none"]
    /\ threads' = [threads EXCEPT ![t] = IdleThread]
    /\ UNCHANGED <<mgrFrame, upstreams, nextSession>>

(* Manager.Get, as a prefixed invocation calls it, and the upstream call after it *)

CallGet(t) ==
    /\ Outside(t)
    /\ \E serverID \in ManagerIDs :
          threads' = [threads EXCEPT ![t] = Entering("Get", "get_rlock", serverID, "none")]
    /\ UNCHANGED <<mgrFrame, upstreams, mu, nextSession>>

\* m.mu.RLock()
GetRLock(t) ==
    /\ At(t, "get_rlock")
    /\ CanRLock
    /\ mu' = [mu EXCEPT !.readers = @ \cup {t}]
    /\ threads' = [threads EXCEPT ![t].pc = "get_read"]
    /\ UNCHANGED <<mgrFrame, upstreams, nextSession>>

\* The map read, the deferred m.mu.RUnlock() and the return; the handler then
\* calls the session it got, or returns the error of an id that is not found
GetReturn(t) ==
    /\ At(t, "get_read")
    /\ mu' = [mu EXCEPT !.readers = @ \ {t}]
    /\ threads' =
          IF Get(threads[t].id).ok
          THEN [threads EXCEPT ![t].pc = "invoke", ![t].got = Get(threads[t].id).u]
          ELSE [threads EXCEPT ![t] = IdleThread]
    /\ UNCHANGED <<mgrFrame, upstreams, nextSession>>

\* u.Session.CallTool, ReadResource or GetPrompt returns
InvokeReturn(t) ==
    /\ At(t, "invoke")
    /\ threads' = [threads EXCEPT ![t] = IdleThread]
    /\ UNCHANGED <<mgrFrame, upstreams, mu, nextSession>>

(* Manager.List, as a discovery calls it, and the list calls after it *)

CallList(t) ==
    /\ Outside(t)
    /\ threads' = [threads EXCEPT ![t] = Entering("List", "list_rlock", << >>, "none")]
    /\ UNCHANGED <<mgrFrame, upstreams, mu, nextSession>>

\* m.mu.RLock()
ListRLock(t) ==
    /\ At(t, "list_rlock")
    /\ CanRLock
    /\ mu' = [mu EXCEPT !.readers = @ \cup {t}]
    /\ threads' = [threads EXCEPT ![t].pc = "list_read"]
    /\ UNCHANGED <<mgrFrame, upstreams, nextSession>>

\* The copy of the map's values, the deferred m.mu.RUnlock() and the return
ListReturn(t) ==
    /\ At(t, "list_read")
    /\ mu' = [mu EXCEPT !.readers = @ \ {t}]
    /\ \E order \in ListOrders :
          threads' =
             IF order = << >>
             THEN [threads EXCEPT ![t] = IdleThread]
             ELSE [threads EXCEPT ![t].pc = "disc_issue",
                                  ![t].order = order, ![t].pending = order]
    /\ UNCHANGED <<mgrFrame, upstreams, nextSession>>

\* The handler's loop calls u.Session.ListTools (ListResources, ListPrompts) on the
\* next backend of the list
DiscIssue(t) ==
    /\ At(t, "disc_issue")
    /\ threads' = [threads EXCEPT ![t].pc = "disc_await"]
    /\ UNCHANGED <<mgrFrame, upstreams, mu, nextSession>>

\* The backend's answer arrives and the loop moves on
DiscReceive(t) ==
    /\ At(t, "disc_await")
    /\ threads' =
          IF Tail(threads[t].pending) = << >>
          THEN [threads EXCEPT ![t] = IdleThread]
          ELSE [threads EXCEPT ![t].pc = "disc_issue", ![t].pending = Tail(@)]
    /\ UNCHANGED <<mgrFrame, upstreams, mu, nextSession>>

ManagerNext ==
    \E t \in Threads :
        \/ CallConnect(t) \/ ConnectLock(t) \/ ConnectBody(t) \/ ConnectHandshake(t)
        \/ ConnectUnlock(t)
        \/ CallClose(t) \/ CloseLock(t) \/ CloseIssue(t) \/ CloseSession(t)
        \/ CloseClear(t) \/ CloseUnlock(t)
        \/ CallGet(t) \/ GetRLock(t) \/ GetReturn(t) \/ InvokeReturn(t)
        \/ CallList(t) \/ ListRLock(t) \/ ListReturn(t) \/ DiscIssue(t) \/ DiscReceive(t)

SpecManager == ManagerInit /\ [][ManagerNext]_vars


\* Fair scheduling of the goroutines' own steps; nothing obliges a backend to answer
SpecManagerFair ==
    /\ SpecManager
    /\ \A t \in Threads :
          /\ WF_vars(DiscIssue(t))
          /\ WF_vars(ListReturn(t))
          /\ WF_vars(GetReturn(t))
          /\ WF_vars(ConnectBody(t))
          /\ WF_vars(ConnectUnlock(t))
          /\ WF_vars(CloseIssue(t))
          /\ WF_vars(CloseClear(t))
          /\ WF_vars(CloseUnlock(t))

-----------------------------------------------------------------------------
(* Claims about the Manager, checked under SpecManager *)

\* The goroutine is between Lock and Unlock
InWriteSection(t) ==
    threads[t].pc \in {"connect_body", "connect_handshake", "connect_unlock",
                       "close_loop", "close_wait", "close_unlock"}

\* The goroutine is between RLock and RUnlock
InReadSection(t) == threads[t].pc \in {"get_read", "list_read"}

\* The goroutine is blocked in RLock
WantsRead(t) == threads[t].pc \in {"get_rlock", "list_rlock"}

\* Connect is about to return (the lock is still held)
ConnectReturning(t) == threads[t].op = "Connect" /\ threads[t].pc = "connect_unlock"

\* Close is about to return (the lock is still held)
CloseReturning(t) == threads[t].op = "Close" /\ threads[t].pc = "close_unlock"

\* C11: Connect called with a backend id that is already in the registry returns an
\* error and replaces nothing: the entry for that id is the same connection before
\* and after the failed call, and Get on that id still returns the first connection.
C11_ConnectTwice ==
    \A t \in Threads :
        (ConnectReturning(t) /\ threads[t].id \in DOMAIN threads[t].snap) =>
            /\ threads[t].err = "already connected to server"
            /\ upstreams = threads[t].snap
            /\ Get(threads[t].id) = [ok |-> TRUE, u |-> threads[t].snap[threads[t].id]]

\* Reached: a second Connect for a connected id, with a transport that would have
\* been accepted, is returning its error while the registry also holds another id.
C11_Witness ==
    \E t \in Threads :
        /\ ConnectReturning(t)
        /\ threads[t].err = "already connected to server"
        /\ threads[t].kind = "stdio"
        /\ DOMAIN upstreams = ManagerIDs

\* C12: Connect fails with three distinguishable errors, for an id already
\* connected, for an unrecognized transport kind and for a failed handshake; in each
\* failure the registry is exactly as before the call; an entry is added only
\* after a successful handshake.
C12_ConnectErrors ==
    \A t \in Threads :
        ConnectReturning(t) =>
            LET th == threads[t]
            IN  /\ (th.id \in DOMAIN th.snap) => (th.err = "already connected to server")
                /\ (th.id \notin DOMAIN th.snap /\ th.kind \notin {"stdio", "http"})
                      => (th.err = "unsupported transport kind")
                /\ (th.hs = "failed") => (th.err = "failed to connect to server")
                /\ (th.err # "nil") => (upstreams = th.snap)
                /\ (upstreams # th.snap) =>
                      /\ th.hs = "ok" /\ th.err = "nil"
                      /\ DOMAIN upstreams = DOMAIN th.snap \cup {th.id}
                      /\ \A x \in DOMAIN th.snap : upstreams[x] = th.snap[x]
                /\ (th.err = "nil") => (th.hs = "ok" /\ th.id \in DOMAIN upstreams)
                /\ Cardinality({"already connected to server", "unsupported transport kind",
                                "failed to connect to server", "nil"}) = 4

\* Reached: a handshake failed for the id of a known transport while another backend
\* was registered, and Connect is returning the handshake error.
C12_Witness ==
    \E t \in Threads :
        /\ ConnectReturning(t)
        /\ threads[t].hs = "failed"
        /\ threads[t].err = "failed to connect to server"
        /\ upstreams # NewManager

\* C13: Close attempts to close the session of every backend in the registry even
\* when some closes fail, leaves the registry empty in every case and returns an
\* error iff at least one close failed; when it returns, Connect with a previously
\* registered id is not rejected as already connected.
C13_CloseAll ==
    \A t \in Threads :
        CloseReturning(t) =>
            LET th == threads[t]
            IN  /\ th.closed = {th.snap[x].Session : x \in DOMAIN th.snap}
                /\ upstreams = NewManager
                /\ (th.err # "nil") <=> (th.errs # {})
                /\ \A x \in DOMAIN th.snap : ~alreadyConnected(x)

\* Reached: with two backends registered, the session closed first failed to close;
\* the second was closed all the same and Close is returning an error.
C13_Witness ==
    \E t \in Threads :
        /\ CloseReturning(t)
        /\ DOMAIN threads[t].snap = ManagerIDs
        /\ threads[t].errs = {threads[t].order[1]}
        /\ Cardinality(threads[t].closed) = 2
        /\ threads[t].err = "errors closing upstreams"

\* C14: reader/writer discipline on the registry: at most one of Connect and Close
\* is inside its critical section at any time, and no Get or List is inside one at
\* the same time; readers do not block one another: a Get or List waiting for the
\* read lock can take it whenever no Connect or Close holds or awaits the lock,
\* however many readers are inside.
C14_ReaderWriter ==
    /\ \A t, u \in Threads : (InWriteSection(t) /\ InWriteSection(u)) => t = u
    /\ \A t, u \in Threads : ~(InWriteSection(t) /\ InReadSection(u))
    /\ \A t \in Threads :
          (WantsRead(t) /\ ~WriterWaiting /\ ~\E u \in Threads : InWriteSection(u))
              => CanRLock

\* Reached: a Get and a List are inside their critical sections together, while a
\* Connect waits for them.
C14_Witness ==
    \E t, u, w \in Threads :
        /\ threads[t].pc = "get_read"
        /\ threads[u].pc = "list_read"
        /\ threads[w].pc = "connect_lock"

\* Reached: a reader takes the read lock while another reader is inside.
C14_WitnessSecondReader ==
    \E t, u \in Threads :
        /\ t # u
        /\ InReadSection(t)
        /\ WantsRead(u) /\ CanRLock

\* An upstream operation issued by the goroutine is in flight: the handshake, a
\* session close, a list call or an invocation
InFlight(t) ==
    threads[t].pc \in {"connect_handshake", "close_wait", "disc_await", "invoke"}

HoldsLock(t) == mu.writer = t \/ t \in mu.readers

\* C15: no lock is held across an upstream call: in every reachable state in which
\* an upstream operation (handshake, session close, list, call, read, get) is in
\* flight, the goroutine that issued it holds neither the read lock nor the write
\* lock of the registry.
C15_NoLockAcrossUpstream ==
    \A t \in Threads : InFlight(t) => ~HoldsLock(t)

\* The part of C15 that the code keeps: list calls and invocations are made after
\* List and Get have released the read lock.
C15_ReadsReleaseFirst ==
    \A t \in Threads : threads[t].pc \in {"disc_await", "invoke"} => ~HoldsLock(t)

\* A discovery of the goroutine has listed two or more backends and has not yet
\* called them all
FanOutOpen(t) ==
    threads[t].pc \in {"disc_issue", "disc_await"} /\ Len(threads[t].order) >= 2
    /\ (Len(threads[t].pending) >= 2 \/ threads[t].pc = "disc_issue")

\* Every backend the discovery listed has been called
FanOutIssued(t) ==
    threads[t].pc = "idle" \/ (threads[t].pc = "disc_await" /\ Len(threads[t].pending) = 1)

\* C17: within one discovery over two or more backends the list calls run
\* concurrently: the call to a backend is issued without waiting for another
\* backend's answer, so a backend that never answers does not keep the calls to
\* the other backends from being issued.
C17_FanOutConcurrent ==
    \A t \in Threads : FanOutOpen(t) ~> FanOutIssued(t)


-----------------------------------------------------------------------------
(* SpecProxy: a PerServerProxy built for one backend of the registry that     *)
(* start-up left, serving discoveries and invocations next to the hub's        *)

\* The profile's server map under SpecProxy
ProxyServerMaps ==
    UNION {[listed -> {SafeEntry, StrictEntry}] : listed \in SUBSET HubServerIDs}

\* The references a client may send to a proxy: native names, and a name written
\* the way the hub's prefix mode writes it
ProxyRefs == {NameX, NameY, NameBX, <<"a">> \o Colon \o NameX}

\* NewPerServerProxy: serverID is upstream.ID
NewPerServerProxy(upstream) == [serverID |-> upstream.ID, upstream |-> upstream]

\* PerServerProxy.profileEngine
ProxyEngine == NewEngine(config, profileName)

\* Mutant of proxyEmitted: the proxy names its records the way the hub does
proxyEmitted_AsHub(n) == EmittedName(proxy.serverID, n)

\* The name under which a proxy discovery handler appends a surviving record: the
\* record is appended as the backend sent it
proxyEmitted(n) == n

\* The check of a proxy discovery handler
ProxyListAllowed(kind, n) == IsKindAllowed(ProxyEngine, kind, proxy.serverID, n)

\* The filtering loop of a proxy discovery handler
RECURSIVE proxyFilter(_, _)
proxyFilter(kind, names) ==
    IF names = << >> THEN << >>
    ELSE (IF ProxyListAllowed(kind, Head(names))
          THEN <<[owner |-> proxy.upstream.ID, native |-> Head(names),
                  emitted |-> proxyEmitted(Head(names))]>>
          ELSE << >>)
         \o proxyFilter(kind, Tail(names))

\* PerServerProxy.handleToolsList, handleResourcesList, handlePromptsList: fails
\* says whether the upstream list call returns an error
proxyList(kind, fails) ==
    [type     |-> "plist",
     kind     |-> kind,
     serverID |-> proxy.serverID,
     err      |-> IF fails THEN ErrUpstream ELSE ErrNil,
     records  |-> IF fails THEN << >> ELSE proxyFilter(kind, caps[proxy.upstream.ID])]

\* Mutant of ProxyCallAllowed: the proxy relies on its discovery filter alone
ProxyCallAllowed_Skipped(kind, ref) == TRUE

\* The check of a proxy invocation handler
ProxyCallAllowed(kind, ref) == IsKindAllowed(ProxyEngine, kind, proxy.serverID, ref)

ProxyCallResp(kind, ref, outcome, err, forwards) ==
    [type     |-> "pcall",
     kind     |-> kind,
     ref      |-> ref,
     serverID |-> proxy.serverID,
     outcome  |-> outcome,
     err      |-> err,
     checks   |-> <<[serverID |-> proxy.serverID, name |-> ref]>>,
     forwards |-> forwards]

\* Mutant of proxyCall: the upstream is called before the policy is asked, and a
\* name the backend does not have is answered with the backend's error
proxyCall_UpstreamFirst(kind, ref, fails) ==
    IF ~UpstreamOK(proxy.upstream.ID, ref, IF fails THEN {proxy.upstream.ID} ELSE {})
    THEN ProxyCallResp(kind, ref, "call_failed", ErrUpstream,
                       <<[backend |-> proxy.upstream.ID, name |-> ref, ok |-> FALSE]>>)
    ELSE IF ~ProxyCallAllowed(kind, ref)
    THEN ProxyCallResp(kind, ref, "denied", ErrDenied, << >>)
    ELSE ProxyCallResp(kind, ref, "ok", ErrNil,
                       <<[backend |-> proxy.upstream.ID, name |-> ref, ok |-> TRUE]>>)

\* PerServerProxy.handleToolsCall, handleResourcesRead, handlePromptsGet: fails says
\* whether the backend fails this call
proxyCall(kind, ref, fails) ==
    IF ~ProxyCallAllowed(kind, ref)
    THEN ProxyCallResp(kind, ref, "denied", ErrDenied, << >>)
    ELSE IF UpstreamOK(proxy.upstream.ID, ref, IF fails THEN {proxy.upstream.ID} ELSE {})
    THEN ProxyCallResp(kind, ref, "ok", ErrNil,
                       <<[backend |-> proxy.upstream.ID, name |-> ref, ok |-> TRUE]>>)
    ELSE ProxyCallResp(kind, ref, "call_failed", ErrUpstream,
                       <<[backend |-> proxy.upstream.ID, name |-> ref, ok |-> FALSE]>>)

\* The registry after start-up connected the backends of order one after another
\* (cmd serve: manager.Connect for each configured server, in map order; a
\* backend whose handshake failed is not in order)
Started(order) ==
    [id \in {order[i] : i \in 1..Len(order)} |->
        Upstream(id, CHOOSE i \in 1..Len(order) : order[i] = id)]

StartOrders ==
    {<<(<<"a">>)>>, <<(<<"a", ":", "b">>)>>,
     <<(<<"a">>), (<<"a", ":", "b">>)>>, <<(<<"a", ":", "b">>), (<<"a">>)>>}

ProxyInit ==
    /\ MatchIdle
    /\ PolicyIdle
    /\ ManagerIdle
    /\ resp = [type |-> "none"]
    /\ prefixEnabled \in BOOLEAN
    /\ caps \in {FullCaps, SparseCaps}
    /\ \/ /\ profileName = "safe"
          /\ \E servers \in ProxyServerMaps : config = RootConfig(servers)
       \/ /\ profileName = "ghost"
          /\ config = RootConfig([id \in HubServerIDs |-> OpenEntry])
    /\ \E order \in StartOrders : upstreams = Started(order)
    /\ \E id \in DOMAIN upstreams : proxy = NewPerServerProxy(upstreams[id])

ProxyList(kind) ==
    /\ \E fails \in BOOLEAN : resp' = proxyList(kind, fails)
    /\ UNCHANGED <<matchVars, policyVars, mgrVars, proxyVars, config, profileName,
                   prefixEnabled, caps, upstreams>>

ProxyCall(kind) ==
    /\ \E ref \in ProxyRefs, fails \in BOOLEAN : resp' = proxyCall(kind, ref, fails)
    /\ UNCHANGED <<matchVars, policyVars, mgrVars, proxyVars, config, profileName,
                   prefixEnabled, caps, upstreams>>

ProxyToolsList == ProxyList("tools")

ProxyToolsCall == ProxyCall("tools")

ProxyResourcesList == ProxyList("resources")

ProxyResourcesRead == ProxyCall("resources")

ProxyPromptsList == ProxyList("prompts")

ProxyPromptsGet == ProxyCall("prompts")

ProxyNext ==
    \/ ProxyToolsList
    \/ ProxyToolsCall
    \/ ProxyResourcesList
    \/ ProxyResourcesRead
    \/ ProxyPromptsList
    \/ ProxyPromptsGet
    \/ HandleToolsList
    \/ HandleToolsCall
    \/ HandleResourcesList
    \/ HandleResourcesRead
    \/ HandlePromptsList
    \/ HandlePromptsGet

SpecProxy == ProxyInit /\ [][ProxyNext]_vars

-----------------------------------------------------------------------------
(* Claims about invocations served by the hub and by the proxy (SpecProxy) *)

\* The backends an invocation issued upstream calls to
Contacted == {resp.forwards[i].backend : i \in 1..Len(resp.forwards)}

-----------------------------------------------------------------------------
(* Claims about the hub's invocations (Spec) *)

\* The registered backends that would serve an unprefixed invocation of the last
\* request's reference: the policy permits it there and the backend has it
WouldServe ==
    {id \in resp.reg : PolicyAllows(resp.kind, id, resp.ref) /\ ExistsUpstream(id, resp.ref)}

\* Of a set of registered backends, the one connected first
ConnectedFirst(ids) ==
    CHOOSE id \in ids : \A other \in ids : upstreams[id].Session <= upstreams[other].Session

C23_BackendAnswerUnmodified ==
    (resp.type = "call" /\ Len(resp.forwards) > 0) =>
        LET last == resp.forwards[Len(resp.forwards)]
        IN  /\ last.ok => (resp.outcome = "ok" /\ resp.err = ErrNil)
            /\ ~last.ok => (resp.err = ErrUpstream /\ resp.lastErr = last.backend)

-----------------------------------------------------------------------------
(* Claims about the PerServerProxy (SpecProxy) *)

\* C24: proxy discovery (tools/list, resources/list, prompts/list) never returns an
\* error because its single backend failed: when the upstream list call errs the
\* proxy responds with a successful empty result.
C24_ProxyDiscoveryNeverErrs ==
    (resp.type = "plist") => resp.err = ErrNil

\* C25: the proxy never renames: every name in its discovery results is the name the
\* backend listed, and an invocation is checked and forwarded under the reference as
\* the client gave it, whatever the value of the hub's prefix flag.
C25_ProxyNeverRenames ==
    /\ (resp.type = "plist") =>
           \A i \in 1..Len(resp.records) :
               /\ resp.records[i].emitted = resp.records[i].native
               /\ ExistsUpstream(proxy.upstream.ID, resp.records[i].emitted)
    /\ (resp.type = "pcall") =>
           /\ \A i \in 1..Len(resp.checks) : resp.checks[i].name = resp.ref
           /\ \A i \in 1..Len(resp.forwards) : resp.forwards[i].name = resp.ref
           /\ (/\ PolicyAllows(resp.kind, proxy.serverID, resp.ref)
               /\ ExistsUpstream(proxy.upstream.ID, resp.ref)
               /\ resp.outcome # "ok") => (resp.outcome = "call_failed" /\ ~resp.forwards[1].ok)

\* Reached: with the hub's prefix flag on, a proxy discovery answered two names, each
\* as the backend lists it.
C25_Witness ==
    /\ prefixEnabled
    /\ resp.type = "plist" /\ resp.err = ErrNil
    /\ Len(resp.records) >= 2
    /\ \E i \in 1..Len(resp.records) : resp.records[i].emitted = NameX

\* Reached: with the hub's prefix flag on, a proxy invocation under the bare native
\* name was served by the proxy's backend.
C25_WitnessCall ==
    /\ prefixEnabled
    /\ resp.type = "pcall" /\ resp.outcome = "ok"
    /\ ~HasSeparator(resp.ref)

\* C26: a proxy invocation performs exactly one policy check, on (profile, its fixed
\* backend id, kind, the reference as given), and then either forwards once to its
\* fixed backend or rejects; when the check denies no upstream call is made, and no
\* other backend is ever contacted.
C26_OneCheckThenForwardOrReject ==
    (resp.type = "pcall") =>
        /\ resp.checks = <<[serverID |-> proxy.serverID, name |-> resp.ref]>>
        /\ IF PolicyAllows(resp.kind, proxy.serverID, resp.ref)
           THEN /\ Len(resp.forwards) = 1
                /\ resp.forwards[1].backend = proxy.upstream.ID
                /\ resp.forwards[1].name = resp.ref
                /\ resp.outcome \in {"ok", "call_failed"}
           ELSE /\ resp.forwards = << >>
                /\ resp.outcome = "denied"

\* Reached: the policy denies the name on the proxy's backend, which has it, while
\* another registered backend has it too and is permitted; the proxy rejected the
\* invocation without any upstream call.
C26_Witness ==
    /\ resp.type = "pcall" /\ resp.outcome = "denied" /\ resp.forwards = << >>
    /\ ExistsUpstream(proxy.upstream.ID, resp.ref)
    /\ \E id \in DOMAIN upstreams :
          /\ id # proxy.serverID
          /\ ExistsUpstream(id, resp.ref)
          /\ PolicyAllows(resp.kind, id, resp.ref)

\* The text of a reference after its first separator
Remainder(ref) == SubSeq(ref, Len(DecodedID(ref)) + 2, Len(ref))

\* The failure classes of the last invocation, told from the request, the profile
\* and the registry: the name is malformed; the policy denies it (on the backend a
\* prefixed reference names, on the proxy's backend, or, unprefixed, on every
\* registered backend); the upstream call failed
MalformedName == resp.type = "call" /\ prefixEnabled /\ ~HasSeparator(resp.ref)

PolicyDenied ==
    \/ /\ resp.type = "call" /\ prefixEnabled /\ HasSeparator(resp.ref)
       /\ DecodedID(resp.ref) \in resp.reg
       /\ ~PolicyAllows(resp.kind, DecodedID(resp.ref), Remainder(resp.ref))
    \/ /\ resp.type = "call" /\ ~prefixEnabled
       /\ \A id \in resp.reg : ~PolicyAllows(resp.kind, id, resp.ref)
    \/ /\ resp.type = "pcall"
       /\ ~PolicyAllows(resp.kind, proxy.serverID, resp.ref)

UpstreamCallFailed ==
    /\ resp.forwards # << >>
    /\ ~resp.forwards[Len(resp.forwards)].ok

\* The error outcomes of the classes
DeniedErrors == {ErrDenied, ErrNotFound}

FailedErrors == {ErrUpstream, ErrProbeFailed}

\* C29: for an invocation served by the hub or by the proxy, the failure classes
\* 'policy denied', 'upstream call failed' and 'malformed name' produce pairwise
\* distinguishable error outcomes: the error returned tells the class and the class
\* the error. The outcome for a policy-denied name is decided before any upstream
\* call, so it is the same whether or not the capability exists on the backend.
C29_FailureClassesDistinct ==
    (resp.type \in {"call", "pcall"}) =>
        /\ MalformedName <=> (resp.err = ErrMalformed)
        /\ PolicyDenied <=> (resp.err \in DeniedErrors)
        /\ UpstreamCallFailed <=> (resp.err \in FailedErrors)
        /\ PolicyDenied => resp.forwards = << >>
        /\ DeniedErrors \cap FailedErrors = {}
        /\ ErrMalformed \notin DeniedErrors \cup FailedErrors

\* Reached: the proxy rejected a name the policy denies and its backend does not
\* have, with the error it gives for a denied name the backend has.
C29_Witness ==
    /\ resp.type = "pcall" /\ PolicyDenied /\ resp.err = ErrDenied
    /\ ~ExistsUpstream(proxy.upstream.ID, resp.ref)

\* Reached: the hub, in prefix mode, rejected a name the policy denies and the named
\* backend has.
C29_WitnessExists ==
    /\ resp.type = "call" /\ prefixEnabled /\ PolicyDenied /\ resp.err = ErrDenied
    /\ ExistsUpstream(DecodedID(resp.ref), Remainder(resp.ref))

\* The names of a discovery result
Names(records) == {records[i].emitted : i \in 1..Len(records)}

ConfigurationDenied(id) ==
    \/ profileName \notin DOMAIN config.Profiles
    \/ id \notin DOMAIN config.Profiles[profileName].Servers

\* The profile lists the backend and its filter denies the name
GenuinelyDenied(kind, id, n) == ~ConfigurationDenied(id) /\ ~PolicyAllows(kind, id, n)

\* C28: a configuration-level denial is indistinguishable from a genuine policy
\* denial: for an invocation naming a connected backend, the outcome when the profile
\* is unknown or does not list the backend is the one given when the backend is
\* listed and its filter denies the name: the same error, and no upstream call. In
\* no-prefix mode, where every registered backend is asked, the same holds of the
\* error given when each of them is denied in one of the two ways.
C28_ConfigurationDenialLooksGenuine ==
    /\ (/\ resp.type = "call" /\ prefixEnabled /\ HasSeparator(resp.ref)
        /\ DecodedID(resp.ref) \in resp.reg
        /\ \/ ConfigurationDenied(DecodedID(resp.ref))
           \/ GenuinelyDenied(resp.kind, DecodedID(resp.ref), Remainder(resp.ref)))
           => (resp.outcome = "denied" /\ resp.err = ErrDenied /\ resp.forwards = << >>)
    /\ (/\ resp.type = "call" /\ ~prefixEnabled
        /\ \A id \in resp.reg :
              ConfigurationDenied(id) \/ GenuinelyDenied(resp.kind, id, resp.ref))
           => (resp.outcome = "not_found_or_not_allowed" /\ resp.err = ErrNotFound
               /\ resp.forwards = << >>)

\* Reached: in prefix mode an invocation named a connected backend that has the name
\* and that the profile does not list; it was rejected as denied by the profile.
C28_Witness ==
    /\ resp.type = "call" /\ prefixEnabled /\ HasSeparator(resp.ref)
    /\ DecodedID(resp.ref) \in resp.reg
    /\ profileName \in DOMAIN config.Profiles
    /\ ConfigurationDenied(DecodedID(resp.ref))
    /\ ExistsUpstream(DecodedID(resp.ref), Remainder(resp.ref))
    /\ resp.err = ErrDenied

\* Reached: the same rejection for a connected backend that the profile lists and
\* whose filter denies the name.
C28_WitnessGenuine ==
    /\ resp.type = "call" /\ prefixEnabled /\ HasSeparator(resp.ref)
    /\ DecodedID(resp.ref) \in resp.reg
    /\ GenuinelyDenied(resp.kind, DecodedID(resp.ref), Remainder(resp.ref))
    /\ ExistsUpstream(DecodedID(resp.ref), Remainder(resp.ref))
    /\ resp.err = ErrDenied

\* Reached: the same rejection under a profile the configuration does not define.
C28_WitnessUnknownProfile ==
    /\ resp.type = "call" /\ prefixEnabled /\ HasSeparator(resp.ref)
    /\ DecodedID(resp.ref) \in resp.reg
    /\ profileName \notin DOMAIN config.Profiles
    /\ resp.err = ErrDenied

-----------------------------------------------------------------------------
(* Claims about the transport of a connection (SpecManager) *)

\* C30: for a backend connected with transport kind http and a non-empty set of
\* configured static headers, every outbound request sent to that backend carries
\* each configured header with its configured value. Stated of the requests of the
\* handshake, the first the connection sends, which go out through the transport
\* built from the configuration.
C30_ConfiguredHeadersSent ==
    \A t \in Threads :
        (/\ At(t, "connect_handshake")
         /\ threads[t].kind = "http"
         /\ ServerConfig(threads[t].kind).Transport.Headers # {})
            => ServerConfig(threads[t].kind).Transport.Headers
                   \subseteq threads[t].transport.headers

-----------------------------------------------------------------------------
(* Further claims about matchPattern (SpecMatch) *)

\* A pattern made of literal characters and single "*" only
IsSimpleGlob(p) ==
    /\ \E i \in 1..Len(p) : p[i] = "*"
    /\ ~HasStarStar(p)
    /\ \A i \in 1..Len(p) : p[i] \in {"a", "/", "*"}

\* Single-segment glob matching, stated from its definition: a literal matches
\* itself, "*" matches any run of characters that holds no "/"
RECURSIVE SegmentGlob(_, _)
SegmentGlob(p, n) ==
    IF p = << >> THEN n = << >>
    ELSE IF Head(p) = "*"
    THEN \E k \in 0..Len(n) :
            /\ \A i \in 1..k : n[i] # "/"
            /\ SegmentGlob(Tail(p), SubSeq(n, k + 1, Len(n)))
    ELSE n # << >> /\ Head(n) = Head(p) /\ SegmentGlob(Tail(p), Tail(n))

\* The number of "/" in s
Slashes(s) == Cardinality({i \in 1..Len(s) : s[i] = "/"})

\* C32: a pattern that contains "*" but not "**" (and is not "*" alone or equal to the
\* name) is matched as a single-segment glob: "*" matches any run of characters that
\* contains no "/". A pattern of literals and "*" matches exactly the names the
\* single-segment glob matches, so a match never has a "*" span a "/": the matched
\* name has as many "/" as the pattern.
C32_SingleSegmentGlob ==
    (/\ matched.called /\ IsSimpleGlob(pattern)
     /\ pattern # <<"*">> /\ pattern # name) =>
        /\ matched.result <=> SegmentGlob(pattern, name)
        /\ matched.result => Slashes(name) = Slashes(pattern)

\* Reached: a pattern with a "*" between two literals was refused a name in which the
\* "*" would have to span a "/", and (second witness) matched one within a segment.
C32_Witness ==
    /\ matched.called /\ ~matched.result
    /\ pattern = <<"a", "*", "a">>
    /\ name = <<"a", "/", "a">>

C32_WitnessMatch ==
    /\ matched.called /\ matched.result
    /\ pattern = <<"/", "*", "a">>
    /\ name = <<"/", "a", "a">>

-----------------------------------------------------------------------------
(* Claims that compare the hub and the proxy (SpecProxy) *)

\* Of the records of a hub discovery, the names a client attributes to backend id:
\* in prefix mode the emitted names that start with id and the separator, that
\* prefix stripped; in no-prefix mode the names of the records id contributed
HubNamesFor(records, id) ==
    IF prefixEnabled
    THEN {SubSeq(e, Len(id) + 2, Len(e)) : e \in {x \in Names(records) : HasPrefix(x, id \o Colon)}}
    ELSE {records[i].native : i \in {j \in 1..Len(records) : records[j].owner = id}}

\* The hub, in prefix mode, forwards the reference it emits for (id, n) to backend id
\* under the name n (no backend failing)
HubForwards(kind, id, n) ==
    LET r == splitRef(kind, Prefixed(id, n), SplitN2(Prefixed(id, n), Colon), {})
    IN  \E i \in 1..Len(r.forwards) :
           r.forwards[i].backend = id /\ r.forwards[i].name = n

\* The comparison of C31 for the proxy's backend, over the last proxy response
SameFiltering ==
    /\ (resp.type = "plist" /\ resp.err = ErrNil) =>
           \A order \in ListOrders :
               HubNamesFor(handleList(resp.kind, order, {}).records, proxy.serverID)
                   = Names(resp.records)
    /\ (resp.type = "pcall") =>
           ((resp.forwards # << >>) <=> HubForwards(resp.kind, proxy.serverID, resp.ref))

\* C31: the hub and the proxy enforce the same filtering: for the same configuration,
\* profile and backend B whose upstream call succeeds, the set of names the proxy for
\* B returns from discovery equals the set of B's names the hub returns from
\* discovery (prefix stripped), and a bare name n is forwarded by the proxy for B
\* exactly when the reference for (B, n) is forwarded by the hub in prefix mode.
C31_SameFiltering == SameFiltering

\* The same comparison where no registered backend id contains the separator: it
\* holds there
C31_SameFilteringPlainIDs ==
    (\A id \in DOMAIN upstreams : ~HasSeparator(id)) => SameFiltering

-----------------------------------------------------------------------------
(* Claims about what a policy decision depends on (SpecProxy) *)

\* The per-server entries a configuration may give another backend
OtherEntries ==
    HubEntries \cup {ServerProfileConfig(k, f, g) : k \in Kinds, f \in {AllowAll, DenyAll},
                                                   g \in {AllowAll, DenyAll}}

\* Engine e with the entries of its profile for the backends of others replaced by
\* those of m, and removed where m has none
WithOthers(e, others, m) ==
    IF e.profile \notin DOMAIN e.config.Profiles THEN e
    ELSE [e EXCEPT !.config.Profiles[e.profile].Servers =
              [id \in ((DOMAIN @) \ others) \cup DOMAIN m |->
                  IF id \in DOMAIN m THEN m[id] ELSE @[id]]]

\* The engines whose configuration differs from e's only in the filters of backends
\* other than id
OtherEngines(e, id) ==
    {WithOthers(e, HubServerIDs \ {id}, m) :
        m \in UNION {[listed -> OtherEntries] : listed \in SUBSET (HubServerIDs \ {id})}}

\* C35: policy decisions for one backend do not depend on another backend's filters:
\* for a fixed profile the decision for (backend, kind, name) is the same under every
\* change of the filters configured for the other backends, so what a proxy returns
\* from discovery, and whether it rejects an invocation, is what its own backend's
\* filters say whatever the other backends' filters are.
C35_BackendsFilterIndependently ==
    \A e \in OtherEngines(ProxyEngine, proxy.serverID) :
        /\ \A kind \in Kinds, n \in ProxyRefs :
               IsKindAllowed(e, kind, proxy.serverID, n)
                   = IsKindAllowed(ProxyEngine, kind, proxy.serverID, n)
        /\ resp.type = "pcall" =>
               ((resp.outcome = "denied")
                    <=> ~IsKindAllowed(e, resp.kind, proxy.serverID, resp.ref))
        /\ (resp.type = "plist" /\ resp.err = ErrNil) =>
               Names(resp.records)
                   = {n \in {caps[proxy.serverID][i] : i \in 1..Len(caps[proxy.serverID])} :
                         IsKindAllowed(e, resp.kind, proxy.serverID, n)}

\* The proxy for "a" has forwarded a tool that the same configuration denies to the
\* other registered backend, whose own filter allows another tool that "a" is denied
C35_Witness ==
    /\ resp.type = "pcall" /\ resp.kind = "tools" /\ resp.outcome = "ok"
    /\ proxy.serverID = <<"a">> /\ resp.ref = NameX
    /\ <<"a", ":", "b">> \in DOMAIN upstreams
    /\ ~IsToolAllowed(ProxyEngine, <<"a", ":", "b">>, NameX)
    /\ IsToolAllowed(ProxyEngine, <<"a", ":", "b">>, NameY)
    /\ ~IsToolAllowed(ProxyEngine, <<"a">>, NameY)

\* The filters a configuration may give the kinds other than the one asked about
OtherFilters == {AllowAll, DenyAll, [Allow |-> <<NameY>>, Deny |-> << >>],
                 [Allow |-> << >>, Deny |-> <<NameX>>]}

\* The entry spc with the filter of kind kept and the filters of the two other kinds
\* replaced by g and h
WithOtherKinds(kind, spc, g, h) ==
    [Tools     |-> IF kind = "tools" THEN spc.Tools ELSE g,
     Resources |-> IF kind = "resources" THEN spc.Resources
                   ELSE IF kind = "tools" THEN g ELSE h,
     Prompts   |-> IF kind = "prompts" THEN spc.Prompts ELSE h]

\* The engines whose configuration differs from e's only in the filters of kinds
\* other than kind
OtherKindEngines(e, kind) ==
    IF e.profile \notin DOMAIN e.config.Profiles THEN {e}
    ELSE {[e EXCEPT !.config.Profiles[e.profile].Servers =
               [id \in DOMAIN @ |-> WithOtherKinds(kind, @[id], g, h)]] :
            g \in OtherFilters, h \in OtherFilters}

\* The (backend, name) pairs a hub invocation forwarded
Forwarded(forwards) ==
    {[serverID |-> forwards[i].backend, name |-> forwards[i].name] : i \in 1..Len(forwards)}

\* C36: kind isolation: the decision for a tool name uses only the backend's tools
\* filter, for a resource URI only its resources filter, for a prompt name only its
\* prompts filter: under every change of the filters of the other kinds the engine
\* decides the same, and every hub and proxy handler of a kind returns and forwards
\* what that kind's filter alone says.
C36_KindIsolation ==
    /\ \A kind \in Kinds : \A e \in OtherKindEngines(ProxyEngine, kind) :
           \A id \in HubServerIDs, n \in ProxyRefs :
               IsKindAllowed(e, kind, id, n) = IsKindAllowed(ProxyEngine, kind, id, n)
    /\ resp.type # "none" =>
           \A e \in OtherKindEngines(ProxyEngine, resp.kind) :
               /\ resp.type = "pcall" =>
                      ((resp.outcome = "denied")
                           <=> ~IsKindAllowed(e, resp.kind, proxy.serverID, resp.ref))
               /\ (resp.type = "plist" /\ resp.err = ErrNil) =>
                      Names(resp.records)
                          = {n \in {caps[proxy.serverID][i] : i \in 1..Len(caps[proxy.serverID])} :
                                IsKindAllowed(e, resp.kind, proxy.serverID, n)}
               /\ resp.type = "list" =>
                      {<<resp.records[i].owner, resp.records[i].native>> : i \in 1..Len(resp.records)}
                          = {p \in UNION {{<<id, caps[id][i]>> : i \in 1..Len(caps[id])} :
                                            id \in resp.reg \ resp.failed} :
                                IsKindAllowed(e, resp.kind, p[1], p[2])}
               /\ resp.type = "call" =>
                      Forwarded(resp.forwards)
                          = {c \in {resp.checks[i] : i \in 1..Len(resp.checks)} :
                                IsKindAllowed(e, resp.kind, c.serverID, c.name)}

\* A proxy has rejected the reading of a resource whose name the same backend's tools
\* filter allows as a tool
C36_Witness ==
    /\ resp.type = "pcall" /\ resp.kind = "resources" /\ resp.outcome = "denied"
    /\ IsToolAllowed(ProxyEngine, proxy.serverID, resp.ref)
    /\ ~IsResourceAllowed(ProxyEngine, proxy.serverID, resp.ref)
    /\ proxy.serverID \in DOMAIN config.Profiles[profileName].Servers

\* The hub has forwarded the reading of a resource whose name the owning backend's
\* tools filter denies as a tool
C36_WitnessHub ==
    /\ resp.type = "call" /\ resp.kind = "resources" /\ resp.outcome = "ok"
    /\ \E c \in Forwarded(resp.forwards) : ~IsToolAllowed(ProxyEngine, c.serverID, c.name)

-----------------------------------------------------------------------------
(* SpecDispatch: the receiving middleware of the hub and of a PerServerProxy, *)
(* handed requests of any method over a registry of two backends             *)

GatewayMethods ==
    {"tools/list", "tools/call", "resources/list", "resources/read",
     "prompts/list", "prompts/get"}

\* Methods the gateway installs no handler for
OtherMethods == {"ping", "tools/List"}

\* The name or uri a request carries: a native name, and one written the way the
\* hub's prefix mode writes it
DispatchRefs == {NameX, <<"a">> \o Colon \o NameX}

\* What the server's default handler may answer
DefaultResults == {"the default handler's result", "the default handler's error"}

\* A gateway handler answered the request
Answered(handler, result) == [handlers |-> <<handler>>, passed |-> << >>, result |-> result]

\* next(ctx, method, req) at the bottom of the chain: the server's default handler,
\* which answers out
defaultHandler(method, req, out) ==
    [handlers |-> << >>, passed |-> <<[method |-> method, req |-> req]>>, result |-> out]

\* Mutant of toolsMiddleware: tools/call has no case
toolsMiddleware_NoCallCase(method, req, order, failing, next) ==
    CASE method = "tools/list" ->
             Answered("Hub.handleToolsList", handleList("tools", order, failing))
      [] OTHER -> next

\* The middleware of registerToolHandlers; next is what the rest of the chain answers
toolsMiddleware(method, req, order, failing, next) ==
    CASE method = "tools/list" ->
             Answered("Hub.handleToolsList", handleList("tools", order, failing))
      [] method = "tools/call" ->
             Answered("Hub.handleToolsCall", handleCall("tools", req.ref, order, failing))
      [] OTHER -> next

\* The middleware of registerResourceHandlers
resourcesMiddleware(method, req, order, failing, next) ==
    CASE method = "resources/list" ->
             Answered("Hub.handleResourcesList", handleList("resources", order, failing))
      [] method = "resources/read" ->
             Answered("Hub.handleResourcesRead", handleCall("resources", req.ref, order, failing))
      [] OTHER -> next

\* The middleware of registerPromptHandlers
promptsMiddleware(method, req, order, failing, next) ==
    CASE method = "prompts/list" ->
             Answered("Hub.handlePromptsList", handleList("prompts", order, failing))
      [] method = "prompts/get" ->
             Answered("Hub.handlePromptsGet", handleCall("prompts", req.ref, order, failing))
      [] OTHER -> next

\* The hub's chain after NewHub: each AddReceivingMiddleware wraps the chain built so
\* far, so the middleware registered last runs first
hubChain(method, req, order, failing, out) ==
    promptsMiddleware(method, req, order, failing,
        resourcesMiddleware(method, req, order, failing,
            toolsMiddleware(method, req, order, failing,
                defaultHandler(method, req, out))))

\* The middleware of PerServerProxy.registerHandlers over the default handler
proxyChain(method, req, fails, out) ==
    CASE method = "tools/list" ->
             Answered("PerServerProxy.handleToolsList", proxyList("tools", fails))
      [] method = "tools/call" ->
             Answered("PerServerProxy.handleToolsCall", proxyCall("tools", req.ref, fails))
      [] method = "resources/list" ->
             Answered("PerServerProxy.handleResourcesList", proxyList("resources", fails))
      [] method = "resources/read" ->
             Answered("PerServerProxy.handleResourcesRead", proxyCall("resources", req.ref, fails))
      [] method = "prompts/list" ->
             Answered("PerServerProxy.handlePromptsList", proxyList("prompts", fails))
      [] method = "prompts/get" ->
             Answered("PerServerProxy.handlePromptsGet", proxyCall("prompts", req.ref, fails))
      [] OTHER -> defaultHandler(method, req, out)

\* A request received by a server, with what its chain did with it
Dispatched(server, method, req, out, d) ==
    [type |-> "dispatch", kind |-> "none", server |-> server, method |-> method,
     req |-> req, out |-> out, handlers |-> d.handlers, passed |-> d.passed,
     result |-> d.result]

\* Both backends are registered and listed in the profile; the proxy serves either
DispatchInit ==
    /\ MatchIdle
    /\ PolicyIdle
    /\ ManagerIdle
    /\ resp = [type |-> "none"]
    /\ prefixEnabled \in BOOLEAN
    /\ caps = FullCaps
    /\ profileName = "safe"
    /\ \E servers \in [HubServerIDs -> {SafeEntry, StrictEntry}] : config = RootConfig(servers)
    /\ upstreams = Started(<<(<<"a">>), (<<"a", ":", "b">>)>>)
    /\ \E id \in DOMAIN upstreams : proxy = NewPerServerProxy(upstreams[id])

HubReceive ==
    /\ \E method \in GatewayMethods \cup OtherMethods, ref \in DispatchRefs,
          order \in ListOrders, failing \in SUBSET DOMAIN upstreams, out \in DefaultResults :
          resp' = Dispatched("hub", method, [ref |-> ref], out,
                             hubChain(method, [ref |-> ref], order, failing, out))
    /\ UNCHANGED <<matchVars, policyVars, mgrVars, proxyVars, config, profileName,
                   prefixEnabled, caps, upstreams>>

ProxyReceive ==
    /\ \E method \in GatewayMethods \cup OtherMethods, ref \in DispatchRefs,
          fails \in BOOLEAN, out \in DefaultResults :
          resp' = Dispatched("proxy", method, [ref |-> ref], out,
                             proxyChain(method, [ref |-> ref], fails, out))
    /\ UNCHANGED <<matchVars, policyVars, mgrVars, proxyVars, config, profileName,
                   prefixEnabled, caps, upstreams>>

DispatchNext == HubReceive \/ ProxyReceive

SpecDispatch == DispatchInit /\ [][DispatchNext]_vars

-----------------------------------------------------------------------------
(* Claims about dispatch (SpecDispatch) *)

\* The handler the gateway installs for a method
HandlerOf(server, method) ==
    (IF server = "hub" THEN "Hub." ELSE "PerServerProxy.")
    \o (CASE method = "tools/list"     -> "handleToolsList"
          [] method = "tools/call"     -> "handleToolsCall"
          [] method = "resources/list" -> "handleResourcesList"
          [] method = "resources/read" -> "handleResourcesRead"
          [] method = "prompts/list"   -> "handlePromptsList"
          [] method = "prompts/get"    -> "handlePromptsGet")

\* The kind a method belongs to, and whether it is a discovery
KindOf(method) ==
    CASE method \in {"tools/list", "tools/call"}         -> "tools"
      [] method \in {"resources/list", "resources/read"} -> "resources"
      [] method \in {"prompts/list", "prompts/get"}      -> "prompts"

IsDiscovery(method) == method \in {"tools/list", "resources/list", "prompts/list"}

\* C33: dispatch: each of the six methods tools/list, tools/call, resources/list,
\* resources/read, prompts/list, prompts/get is answered by exactly one gateway
\* handler, the one of its kind and operation, and never reaches the default handler;
\* every other method is passed to the default handler with its request unchanged and
\* the default handler's result is returned unchanged; in the hub and in the proxy.
C33_Dispatch ==
    resp.type = "dispatch" =>
        IF resp.method \in GatewayMethods
        THEN /\ resp.handlers = <<HandlerOf(resp.server, resp.method)>>
             /\ resp.passed = << >>
             /\ resp.result.kind = KindOf(resp.method)
             /\ resp.result.type =
                    (IF resp.server = "hub"
                     THEN (IF IsDiscovery(resp.method) THEN "list" ELSE "call")
                     ELSE (IF IsDiscovery(resp.method) THEN "plist" ELSE "pcall"))
             /\ ~IsDiscovery(resp.method) => resp.result.ref = resp.req.ref
        ELSE /\ resp.handlers = << >>
             /\ resp.passed = <<[method |-> resp.method, req |-> resp.req]>>
             /\ resp.result = resp.out

\* The hub's innermost middleware answered tools/call, past the two outer ones
C33_Witness ==
    /\ resp.type = "dispatch" /\ resp.server = "hub" /\ resp.method = "tools/call"
    /\ resp.handlers = <<"Hub.handleToolsCall">>
    /\ resp.result.outcome = "ok"

\* A method without a handler went through the whole of the hub's chain to the
\* default handler, whose error came back
C33_WitnessDefault ==
    /\ resp.type = "dispatch" /\ resp.server = "hub" /\ resp.method = "tools/List"
    /\ Len(resp.passed) = 1
    /\ resp.result = "the default handler's error"

\* The proxy answered prompts/get itself
C33_WitnessProxy ==
    /\ resp.type = "dispatch" /\ resp.server = "proxy" /\ resp.method = "prompts/get"
    /\ resp.handlers = <<"PerServerProxy.handlePromptsGet">>

-----------------------------------------------------------------------------
(* SpecRequests: hub and proxy requests served by goroutines while other       *)
(* goroutines run Connect and Close on the Manager, at the granularity of lock *)
(* operations and upstream calls                                               *)

\* The goroutines that serve requests, and those that call Connect and Close
Requesters == {"t1", "t2"}

Mutators == {"t3"}

\* What each backend lists and serves
RequestCaps == [id \in ManagerIDs |-> <<NameX>>]

\* The session's Close has been called, by a Close still running or by one that
\* has emptied the registry since
SessionClosed(s) ==
    \/ \E t \in Threads : threads[t].op = "Close" /\ s \in threads[t].closed
    \/ \A id \in DOMAIN upstreams : upstreams[id].Session # s

\* The answers an upstream call on session s may get: a closed session fails it
Answers(s) == IF SessionClosed(s) THEN {FALSE} ELSE BOOLEAN

\* The sessions a request's upstream calls found closed, after a call on session s
FoundClosed(th, s) == IF SessionClosed(s) THEN th.closed \cup {s} ELSE th.closed

\* The goroutine's state when its handler has decided what to return
Responding(th, outcome, err, records) ==
    [th EXCEPT !.pc = "respond",
               !.result = [outcome |-> outcome, err |-> err, records |-> records]]

\* Mutant of afterAnswer: a backend whose call failed is called again
afterAnswer_RetryOnError(pending, ok) == IF ok THEN Tail(pending) ELSE pending

\* What a handler's loop over the listed backends has left after one answer
afterAnswer(pending, ok) == Tail(pending)

\* Start-up connected backend "a"; a proxy was built for it; one more session may
\* be opened
RequestsInit ==
    /\ MatchIdle
    /\ PolicyIdle
    /\ config = RootConfig(ServerA :> OpenEntry)
    /\ profileName \in {"safe", "dev"}
    /\ prefixEnabled \in BOOLEAN
    /\ caps = RequestCaps
    /\ resp = [type |-> "none"]
    /\ upstreams = (ServerA :> Upstream(ServerA, 1))
    /\ mu = [writer |-> "none", readers |-> {}]
    /\ threads = [t \in Threads |-> IdleThread]
    /\ nextSession = 2
    /\ proxy = NewPerServerProxy(Upstream(ServerA, 1))

(* Hub discovery: handleToolsList *)

\* The handler calls h.manager.List()
ReqDiscovery(t) ==
    /\ Outside(t)
    /\ threads' = [threads EXCEPT ![t] = Entering("Discovery", "list_rlock", << >>, "tools")]
    /\ UNCHANGED <<mgrFrame, upstreams, mu, nextSession>>

\* List copies the map's values, unlocks and returns; the handler ranges over the
\* slice, a discovery calling each backend, an unprefixed invocation probing
ReqListReturn(t) ==
    /\ At(t, "list_read")
    /\ mu' = [mu EXCEPT !.readers = @ \ {t}]
    /\ \E order \in ListOrders :
          threads' = [threads EXCEPT
             ![t] = [@ EXCEPT !.snap = upstreams, !.order = order, !.pending = order,
                              !.pc = IF threads[t].op = "Discovery" THEN "disc_loop"
                                     ELSE "probe_loop"]]
    /\ UNCHANGED <<mgrFrame, upstreams, nextSession>>

\* The head of the discovery loop: u.Session.ListTools is called on the next
\* backend, or the loop is over and the result is returned with a nil error
ReqDiscIssue(t) ==
    /\ At(t, "disc_loop")
    /\ threads' =
          IF threads[t].pending = << >>
          THEN [threads EXCEPT ![t] = Responding(@, "ok", ErrNil, @.result.records)]
          ELSE [threads EXCEPT ![t].pc = "disc_await",
                               ![t].calls = Append(@, Head(threads[t].pending))]
    /\ UNCHANGED <<mgrFrame, upstreams, mu, nextSession>>

\* The backend's answer: an error skips the backend, a result is filtered
ReqDiscReceive(t) ==
    /\ At(t, "disc_await")
    /\ LET id == Head(threads[t].pending)
       IN  \E ok \in Answers(threads[t].snap[id].Session) :
              threads' = [threads EXCEPT
                 ![t].pc = "disc_loop",
                 ![t].closed = FoundClosed(threads[t], threads[t].snap[id].Session),
                 ![t].errs = IF ok THEN @ ELSE @ \cup {id},
                 ![t].result.records =
                     IF ok THEN @ \o FilterRecords("tools", id, caps[id]) ELSE @,
                 ![t].pending = afterAnswer(@, ok)]
    /\ UNCHANGED <<mgrFrame, upstreams, mu, nextSession>>

(* Hub invocation: handleToolsCall for the name "x" *)

\* In prefix mode the reference names a backend and the handler calls
\* h.manager.Get; without prefixes it calls h.manager.List()
ReqInvocation(t) ==
    /\ Outside(t)
    /\ \E serverID \in ManagerIDs :
          threads' = [threads EXCEPT ![t] =
             IF prefixEnabled
             THEN Entering("Invocation", "get_rlock", serverID, "tools")
             ELSE Entering("Invocation", "list_rlock", << >>, "tools")]
    /\ UNCHANGED <<mgrFrame, upstreams, mu, nextSession>>

\* Get reads the map, unlocks and returns; the handler returns its errors or calls
\* u.Session.CallTool
ReqGetReturn(t) ==
    /\ At(t, "get_read")
    /\ mu' = [mu EXCEPT !.readers = @ \ {t}]
    /\ threads' =
          IF ~Get(threads[t].id).ok
          THEN [threads EXCEPT ![t] = Responding(@, "unknown_backend", ErrUnknownBackend, << >>)]
          ELSE IF ~CallPhaseAllowed("tools", threads[t].id, NameX)
          THEN [threads EXCEPT ![t] = Responding(@, "denied", ErrDenied, << >>)]
          ELSE [threads EXCEPT ![t].pc = "invoke", ![t].got = Get(threads[t].id).u,
                               ![t].calls = <<Get(threads[t].id).u.ID>>]
    /\ UNCHANGED <<mgrFrame, upstreams, nextSession>>

\* u.Session.CallTool returns; the handler returns what it returned
ReqInvokeReturn(t) ==
    /\ At(t, "invoke")
    /\ \E ok \in Answers(threads[t].got.Session) :
          threads' = [threads EXCEPT ![t] =
             [(IF ok THEN Responding(@, "ok", ErrNil, << >>)
               ELSE Responding(@, "call_failed", ErrUpstream, << >>))
                 EXCEPT !.closed = FoundClosed(threads[t], threads[t].got.Session)]]
    /\ UNCHANGED <<mgrFrame, upstreams, mu, nextSession>>

\* The head of the probing loop: a backend the profile does not allow is skipped,
\* an allowed one is called; past the last the handler returns one of its two errors
ReqProbeIssue(t) ==
    /\ At(t, "probe_loop")
    /\ threads' =
          IF threads[t].pending = << >>
          THEN [threads EXCEPT ![t] =
                   IF threads[t].errs # {}
                   THEN Responding(@, "call_failed", ErrProbeFailed, << >>)
                   ELSE Responding(@, "not_found_or_not_allowed", ErrNotFound, << >>)]
          ELSE IF ~ProbeAllowed("tools", Head(threads[t].pending), NameX)
          THEN [threads EXCEPT ![t].pending = Tail(@)]
          ELSE [threads EXCEPT ![t].pc = "probe_await",
                               ![t].calls = Append(@, Head(threads[t].pending))]
    /\ UNCHANGED <<mgrFrame, upstreams, mu, nextSession>>

\* The probed backend's answer: a result is returned, an error is kept as lastErr
ReqProbeReceive(t) ==
    /\ At(t, "probe_await")
    /\ LET id == Head(threads[t].pending)
       IN  \E ok \in Answers(threads[t].snap[id].Session) :
              threads' =
                 IF ok
                 THEN [threads EXCEPT ![t] = Responding(@, "ok", ErrNil, << >>)]
                 ELSE [threads EXCEPT ![t].pc = "probe_loop",
                                      ![t].closed = FoundClosed(threads[t], threads[t].snap[id].Session),
                                      ![t].errs = @ \cup {id},
                                      ![t].pending = afterAnswer(@, ok)]
    /\ UNCHANGED <<mgrFrame, upstreams, mu, nextSession>>

(* PerServerProxy requests: handleToolsList and handleToolsCall for the name "x" *)

\* The proxy holds its upstream since it was built and takes no lock; an invocation
\* the profile denies is answered at once
ReqProxy(t) ==
    /\ Outside(t)
    /\ \E op \in {"ProxyDiscovery", "ProxyInvocation"} :
          threads' = [threads EXCEPT ![t] =
             IF op = "ProxyInvocation" /\ ~ProxyCallAllowed("tools", NameX)
             THEN Responding(Entering(op, "respond", proxy.serverID, "tools"),
                             "denied", ErrDenied, << >>)
             ELSE [Entering(op, "proxy_await", proxy.serverID, "tools")
                      EXCEPT !.got = proxy.upstream, !.calls = <<proxy.upstream.ID>>]]
    /\ UNCHANGED <<mgrFrame, upstreams, mu, nextSession>>

\* p.upstream.Session.ListTools or CallTool returns
ReqProxyReceive(t) ==
    /\ At(t, "proxy_await")
    /\ \E ok \in Answers(threads[t].got.Session) :
          threads' = [threads EXCEPT ![t] =
             [(IF ~ok THEN Responding(@, "call_failed", ErrUpstream, << >>)
               ELSE IF threads[t].op = "ProxyDiscovery"
               THEN Responding(@, "ok", ErrNil, proxyFilter("tools", caps[threads[t].got.ID]))
               ELSE Responding(@, "ok", ErrNil, << >>))
                 EXCEPT !.closed = FoundClosed(threads[t], threads[t].got.Session)]]
    /\ UNCHANGED <<mgrFrame, upstreams, mu, nextSession>>

\* The handler returns and the response goes to the client
Respond(t) ==
    /\ At(t, "respond")
    /\ threads' = [threads EXCEPT ![t] = IdleThread]
    /\ UNCHANGED <<mgrFrame, upstreams, mu, nextSession>>

\* A step of a goroutine that serves requests
RequestStep(t) ==
    \/ ReqDiscovery(t) \/ ListRLock(t) \/ ReqListReturn(t) \/ ReqDiscIssue(t)
    \/ ReqDiscReceive(t)
    \/ ReqInvocation(t) \/ GetRLock(t) \/ ReqGetReturn(t) \/ ReqInvokeReturn(t)
    \/ ReqProbeIssue(t) \/ ReqProbeReceive(t)
    \/ ReqProxy(t) \/ ReqProxyReceive(t)
    \/ Respond(t)

\* A step of a goroutine that calls Connect and Close
MutatorStep(t) ==
    \/ CallConnect(t) \/ ConnectLock(t) \/ ConnectBody(t) \/ ConnectHandshake(t)
    \/ ConnectUnlock(t)
    \/ CallClose(t) \/ CloseLock(t) \/ CloseIssue(t) \/ CloseSession(t)
    \/ CloseClear(t) \/ CloseUnlock(t)

RequestsNext ==
    \/ \E t \in Requesters : RequestStep(t)
    \/ \E t \in Mutators : MutatorStep(t)

SpecRequests == RequestsInit /\ [][RequestsNext]_vars

-----------------------------------------------------------------------------
(* Claims about requests that run next to Connect and Close (SpecRequests) *)

\* The goroutine's handler holds the slice that List returned
HoldsList(th) == th.pc \in {"disc_loop", "disc_await", "probe_loop", "probe_await"}

\* C37: List returns an atomic snapshot of the registry: under any interleaving with
\* Connect and Close, what one List call returns is the registry's contents at the
\* instant of its copy, an instant at which no Connect or Close is between its Lock
\* and its Unlock (so never a partially applied Connect or a half-emptied registry),
\* and no later step, a mutation of the registry included, changes a slice already
\* returned.
C37_ListAtomicSnapshot ==
    [][\A t \in Requesters :
          /\ (threads[t].pc = "list_read" /\ HoldsList(threads'[t])) =>
                 /\ threads'[t].snap = upstreams
                 /\ {threads'[t].order[i] : i \in 1..Len(threads'[t].order)} = DOMAIN upstreams
                 /\ Len(threads'[t].order) = Cardinality(DOMAIN upstreams)
                 /\ \A u \in Threads : ~InWriteSection(u)
          /\ (HoldsList(threads[t]) /\ HoldsList(threads'[t])) =>
                 /\ threads'[t].snap = threads[t].snap
                 /\ threads'[t].order = threads[t].order]_vars

\* A discovery is calling the backends of a list of two while Close has emptied the
\* registry since the list was returned
C37_Witness ==
    \E t \in Requesters :
        /\ threads[t].op = "Discovery" /\ threads[t].pc = "disc_await"
        /\ DOMAIN threads[t].snap = ManagerIDs
        /\ upstreams = NewManager

\* A list was returned while a Connect was waiting for the lock, and the Connect has
\* added its backend since
C37_WitnessConnect ==
    \E t \in Requesters :
        /\ HoldsList(threads[t])
        /\ DOMAIN threads[t].snap = {ServerA}
        /\ DOMAIN upstreams = ManagerIDs

\* The goroutine serves a hub request whose Get or List has returned
PastRegistry(th) ==
    /\ th.op \in {"Discovery", "Invocation"}
    /\ th.pc \in {"disc_loop", "disc_await", "invoke", "probe_loop", "probe_await", "respond"}

\* The session of the backend the request's last upstream call went to
LastCalledSession(th) ==
    IF th.snap = << >> THEN th.got.Session ELSE th.snap[th.calls[Len(th.calls)]].Session

\* A hub request past its Get or List takes no step that waits for the registry's
\* lock or changes the lock or the registry, and a discovery whose next backend's
\* session was closed meanwhile counts that backend as failed, with no record of it
SurvivesClose ==
    \A t \in Requesters :
        (PastRegistry(threads[t]) /\ threads'[t] # threads[t]) =>
            /\ upstreams' = upstreams
            /\ mu' = mu
            /\ threads'[t].pc \notin {"list_rlock", "list_read", "get_rlock", "get_read"}
            /\ (/\ threads[t].pc = "disc_await"
                /\ SessionClosed(threads[t].snap[Head(threads[t].pending)].Session)) =>
                   /\ threads'[t].pc = "disc_loop"
                   /\ Head(threads[t].pending) \in threads'[t].errs
                   /\ threads'[t].result.records = threads[t].result.records

\* What a hub request returns: a discovery succeeds, with no record of a backend
\* whose session its call found closed; an invocation whose last call found the
\* backend's session closed returns one of errs
ReturnsAfterClose(errs) ==
    \A t \in Requesters :
        threads[t].pc = "respond" =>
            /\ threads[t].op = "Discovery" =>
                   /\ threads[t].result.outcome = "ok" /\ threads[t].result.err = ErrNil
                   /\ \A id \in DOMAIN threads[t].snap :
                          threads[t].snap[id].Session \in threads[t].closed =>
                              /\ id \in threads[t].errs
                              /\ \A i \in 1..Len(threads[t].result.records) :
                                     threads[t].result.records[i].owner # id
            /\ (/\ threads[t].op = "Invocation"
                /\ threads[t].calls # << >>
                /\ LastCalledSession(threads[t]) \in threads[t].closed) =>
                   threads[t].result.err \in errs

\* C38: a hub request that obtained its connection(s) from Get or List and is then
\* interleaved with a concurrent Close still terminates normally: a discovery treats
\* each backend whose session was closed meanwhile as a failed backend contributing
\* zero records and returns success, an invocation on such a backend returns that
\* backend's error; the request never waits for the registry's lock after its Get or
\* List returned and never changes the registry.
C38_RequestSurvivesClose ==
    /\ [][SurvivesClose]_vars
    /\ []ReturnsAfterClose({ErrUpstream})

\* The same, where an unprefixed invocation may return the hub's own call-failed
\* error in place of the backend's: it holds
C38_SurvivesCloseWrappedError ==
    /\ [][SurvivesClose]_vars
    /\ []ReturnsAfterClose(IF prefixEnabled THEN {ErrUpstream} ELSE {ErrProbeFailed})

\* The operations of a request
RequestOps == {"Discovery", "Invocation", "ProxyDiscovery", "ProxyInvocation"}

\* The goroutines that serve requests under SpecRequestsFair
FairRequesters == {"t1"}

FairRequestsNext ==
    \/ \E t \in FairRequesters : RequestStep(t)
    \/ \E t \in Mutators : MutatorStep(t)

\* One request at a time next to Connect and Close: every upstream call returns, every
\* goroutine takes the steps of its own that stay possible, and a goroutine blocked in
\* RLock is let in when the writer it waits for unlocks (sync.RWMutex admits the
\* readers that were waiting before the next writer)
SpecRequestsFair ==
    /\ RequestsInit /\ [][FairRequestsNext]_vars
    /\ \A t \in FairRequesters :
          /\ SF_vars(ListRLock(t))
          /\ SF_vars(GetRLock(t))
          /\ WF_vars(ReqListReturn(t))
          /\ WF_vars(ReqDiscIssue(t))
          /\ WF_vars(ReqDiscReceive(t))
          /\ WF_vars(ReqGetReturn(t))
          /\ WF_vars(ReqInvokeReturn(t))
          /\ WF_vars(ReqProbeIssue(t))
          /\ WF_vars(ReqProbeReceive(t))
          /\ WF_vars(ReqProxyReceive(t))
    /\ \A t \in Mutators :
          /\ WF_vars(ConnectLock(t))
          /\ WF_vars(ConnectBody(t))
          /\ WF_vars(ConnectHandshake(t))
          /\ WF_vars(ConnectUnlock(t))
          /\ WF_vars(CloseLock(t))
          /\ WF_vars(CloseIssue(t))
          /\ WF_vars(CloseSession(t))
          /\ WF_vars(CloseClear(t))
          /\ WF_vars(CloseUnlock(t))

\* No backend appears twice among the upstream calls of one request
NoRetry(th) == \A i, j \in 1..Len(th.calls) : th.calls[i] = th.calls[j] => i = j

\* The result a handler returns is a success or an error, not both
Terminal(th) ==
    /\ th.result.outcome # "none"
    /\ (th.result.outcome = "ok") <=> (th.result.err = ErrNil)

\* C34: assuming every upstream call eventually returns, every request to the hub or
\* to the proxy eventually reaches exactly one terminal state, a success or an error
\* response, which no later step of the request changes, and there are no retries:
\* within one request each backend receives at most one upstream call.
C34_RequestsTerminate ==
    /\ \A t \in FairRequesters :
          (threads[t].op \in RequestOps) ~> (threads[t].pc = "respond")
    /\ [](\A t \in FairRequesters :
             /\ NoRetry(threads[t])
             /\ threads[t].pc = "respond" => Terminal(threads[t]))
    /\ [][\A t \in FairRequesters :
             threads[t].pc = "respond" =>
                 \/ threads'[t] = threads[t]
                 \/ threads'[t] = IdleThread]_vars

\* A discovery over two backends is about to respond after one call to each, the
\* first of which failed
C34_Witness ==
    \E t \in FairRequesters :
        /\ threads[t].op = "Discovery" /\ threads[t].pc = "respond"
        /\ Len(threads[t].calls) = 2
        /\ threads[t].errs = {threads[t].calls[1]}

\* An unprefixed invocation is about to respond with an error after its only call
\* failed
C34_WitnessError ==
    \E t \in FairRequesters :
        /\ threads[t].op = "Invocation" /\ threads[t].pc = "respond"
        /\ threads[t].calls = <<ServerA>>
        /\ threads[t].result.err = ErrProbeFailed
====
